---- MODULE Spec2Model ----
(***************************************************************************)
(* Model of the batch orchestration and rate-limited external-call         *)
(* pipeline of escooter-repair-directory-backend:                          *)
(*   - services/claudeAPICall.js   checkRateLimits, claudeAPICall          *)
(*   - routes/v1/ai.routes.js      runAIProcessing                         *)
(*   - services/supabaseServicesAI.js   fetchStoresDb, writeAISummariesToDb*)
(*   - services/supabaseService.js      writeStores, writeApifyRunDetails  *)
(*   - routes/v1/scrape.routes.js  processSingleState, runScrape           *)
(* Each part has its own specification (SpecClaude, SpecAI, SpecStores,    *)
(* SpecScrape); the variables of the other parts are left unchanged.       *)
(***************************************************************************)
EXTENDS Integers, Sequences, FiniteSets, TLC

(***************************************************************************)
(* Part 1: services/claudeAPICall.js                                       *)
(***************************************************************************)

\* CLAUDE_CONFIG.MAX_RETRIES
MAX_RETRIES == 3
\* CLAUDE_CONFIG.RETRY_DELAY (ms)
RETRY_DELAY == 65000
\* RATE_LIMITS.REQUESTS_PER_MINUTE
REQUESTS_PER_MINUTE == 45
\* RATE_LIMITS.TOKENS_PER_MINUTE
TOKENS_PER_MINUTE == 35000
\* the length of the rate-limit window (ms), the literal 60000 of checkRateLimits
WINDOW_MS == 60000

\* Time the clock may reach before a new claudeAPICall is no longer started.
MaxNow == 130000
\* Time that passes in one step of the clock while a remote request is in
\* flight or between two invocations (ms).
TickMs == 30000

\* Estimated input tokens of a store text: Math.ceil(chars / 4).  A short
\* text, and a text of 100 reviews that alone reaches the token ceiling.
Estimates == {500, 35000}

\* Messages of the errors the remote call can throw.
RemoteErrors == {"overloaded_error", "rate_limit_error"}
EmptyResponseMessage == "Empty response from Anthropic"

None == "none"
\* What an invocation that has not settled has returned and thrown.
NoValue == [none |-> TRUE]

VARIABLES
    \* module-level state of claudeAPICall.js
    requestsThisMinute, tokensThisMinute, lastResetTime,
    \* Date.now()
    now,
    \* the running claudeAPICall invocation: position, loop index, the
    \* estimate of its store text, the due time of the timer it sleeps on
    pc, attempt, estimatedInputTokens, wakeAt,
    \* what the invocation returned or threw
    result, thrown,
    \* history of the invocation: loop iterations entered, remote requests
    \* sent, the retry delays slept, message of the last caught error, the
    \* messages of the errors caught
    attemptsMade, requestsSent, retryDelays, lastError, caughtErrors,
    \* history of the limiter: calls of checkRateLimits that returned since
    \* lastResetTime was last assigned, and a record of the latest call
    \* history: the sum of the estimates of these calls
    admittedSinceReset, admittedTokens, lastCheck

claudeVars == <<requestsThisMinute, tokensThisMinute, lastResetTime, now,
                pc, attempt, estimatedInputTokens, wakeAt, result, thrown,
                attemptsMade, requestsSent, retryDelays, lastError, caughtErrors,
                admittedSinceReset,
                   admittedTokens, lastCheck>>

VARIABLES
    \* the stores table: place_id -> [reviews_count, ai_summary]
    aiTable,
    \* position of runAIProcessing
    aiPc,
    \* processingDetails of runAIProcessing
    processingDetails,
    \* locals of runAIProcessing: currentBatchIndex, hasMoreStores,
    \* formattedStores, the index of the store in the for loop, processedStores
    page,
    \* locals of writeAISummariesToDb: i, retryCount, the index of the store
    \* in the inner for loop, successful, failed
    sw,
    \* history: place_ids claudeAPICall was called for, and the place_ids of
    \* the members of every successful list writeAISummariesToDb returned
    claudeCalls, successfulIds,
    \* history: the place_ids fetched, those whose claudeAPICall threw, those
    \* of the write batches given up, whether a page query failed, the
    \* place_ids whose claudeAPICall has not settled, those of the stores of
    \* the page classified so far, in the order of their classification,
    \* and what runAIProcessing threw
    aiHistory

aiVars == <<aiTable, aiPc, processingDetails, page, sw, claudeCalls,
            successfulIds, aiHistory>>

VARIABLES
    \* the rows of the stores table
    storesTable,
    \* the surrogate ids the table has given out (gen_random_uuid)
    nextId,
    \* the reading of new Date() at the latest transformation
    clock,
    \* ingestion calls made so far
    calls,
    \* the locals of the writeStores call of each caller
    ws

storeVars == <<storesTable, nextId, clock, calls, ws>>

VARIABLES
    \* runScrape: its position, the index of its batch, its results
    scrape,
    \* the processSingleState call of each state
    sc,
    \* the rows of the apify_runs table, by the state of the run
    apifyRuns

scrapeVars == <<scrape, sc, apifyRuns>>

VARIABLES
    \* a call of fetchStoresDb: its options, its position, its outcome
    fs

fetchVars == <<fs>>

VARIABLES
    \* a call of crawlerGooglePlaces: the items of its dataset, its outcome
    crawl

crawlVars == <<crawl>>

VARIABLES
    \* the claudeAPICall invocations of overlapping jobs: the position of
    \* each in checkRateLimits
    cc,
    \* history: the calls admitted at the present instant and since the
    \* window of the counters began
    admissions

callerVars == <<cc, admissions>>

VARIABLES
    \* a call of writeAISummariesToDb: the stores table, the storeSummaries
    \* given and the locals of the function
    sm

summaryVars == <<sm>>

\* the variables an action of one part leaves unchanged
notClaude == <<summaryVars, callerVars, crawlVars, aiVars, storeVars, scrapeVars, fetchVars>>
notAI == <<summaryVars, callerVars, crawlVars, claudeVars, storeVars, scrapeVars, fetchVars>>
notStores == <<summaryVars, callerVars, crawlVars, claudeVars, aiVars, scrapeVars, fetchVars>>
notScrape == <<summaryVars, callerVars, crawlVars, claudeVars, aiVars, fetchVars>>
notFetch == <<summaryVars, callerVars, claudeVars, aiVars, storeVars, scrapeVars, crawlVars>>
notCrawl == <<summaryVars, callerVars, claudeVars, aiVars, scrapeVars, fetchVars>>
notSummaries ==
    <<callerVars, claudeVars, aiVars, storeVars, scrapeVars, fetchVars,
      crawlVars>>

NoCheck == [made |-> FALSE]

\* checkRateLimits: "Reset counters if a minute has passed"
WindowElapsed(timeElapsed) == timeElapsed >= WINDOW_MS

\* checkRateLimits: "Check if we would exceed limits"
WouldExceed(requests, tokens, est) ==
    \/ requests >= REQUESTS_PER_MINUTE
    \/ tokens + est >= TOKENS_PER_MINUTE

\* A retry loop that gives up one attempt early.
IsLastAttemptEarly(a) == a = MAX_RETRIES - 2

\* claudeAPICall: "If this was our last retry, throw the error"
IsLastAttempt(a) == a = MAX_RETRIES - 1

\* claudeAPICall: the condition of the for loop
LoopContinues(a) == a < MAX_RETRIES

\* The terminal error of claudeAPICall: its message names MAX_RETRIES and
\* carries the message of the error caught last.
TerminalError(message) == [attempts |-> MAX_RETRIES, message |-> message]

\* runAIProcessing calls claudeAPICall for one store after the other.
StartCall(est) ==
    /\ UNCHANGED notClaude
    /\ pc \in {"idle", "returned", "threw"}
    /\ now <= MaxNow
    /\ pc' = "attempt"
    /\ attempt' = 0
    /\ estimatedInputTokens' = est
    /\ result' = NoValue
    /\ thrown' = NoValue
    /\ attemptsMade' = 0
    /\ requestsSent' = 0
    /\ retryDelays' = <<>>
    /\ lastError' = None
    /\ caughtErrors' = <<>>
    /\ UNCHANGED <<requestsThisMinute, tokensThisMinute, lastResetTime, now,
                   wakeAt, admittedSinceReset,
                   admittedTokens, lastCheck>>

\* One loop iteration up to the first await that suspends: checkRateLimits
\* up to its setTimeout, or through to the remote request being sent.
CheckRateLimits ==
    /\ UNCHANGED notClaude
    /\ pc = "attempt"
    /\ attemptsMade' = attemptsMade + 1
    /\ LET timeElapsed == now - lastResetTime
           seen == [made |-> TRUE,
                    inWindow |-> ~WindowElapsed(timeElapsed),
                    priorAdmitted |-> admittedSinceReset,
                    tokensFit |-> tokensThisMinute + estimatedInputTokens
                                      < TOKENS_PER_MINUTE,
                    windowEnd |-> lastResetTime + WINDOW_MS,
                    est |-> estimatedInputTokens,
                    attempt |-> attempt]
       IN  IF WindowElapsed(timeElapsed)
           THEN \* reset and return: the call is not counted
                /\ requestsThisMinute' = 0
                /\ tokensThisMinute' = 0
                /\ lastResetTime' = now
                /\ admittedSinceReset' = 1
                /\ admittedTokens' = estimatedInputTokens
                /\ lastCheck' = [seen EXCEPT !.made = TRUE] @@
                       [suspended |-> FALSE, reset |-> TRUE, resumedAt |-> now]
                /\ pc' = "request"
                /\ requestsSent' = requestsSent + 1
                /\ UNCHANGED wakeAt
           ELSE IF WouldExceed(requestsThisMinute, tokensThisMinute,
                               estimatedInputTokens)
           THEN \* await setTimeout(waitTime)
                /\ wakeAt' = now + (WINDOW_MS - timeElapsed)
                /\ lastCheck' = seen @@
                       [suspended |-> TRUE, reset |-> FALSE, resumedAt |-> now]
                /\ pc' = "limiterWait"
                /\ UNCHANGED <<requestsThisMinute, tokensThisMinute,
                               lastResetTime, admittedSinceReset, admittedTokens,
                               requestsSent>>
           ELSE \* "Update counters BEFORE the API call"
                /\ requestsThisMinute' = requestsThisMinute + 1
                /\ tokensThisMinute' = tokensThisMinute + estimatedInputTokens
                /\ admittedSinceReset' = admittedSinceReset + 1
                /\ admittedTokens' = admittedTokens + estimatedInputTokens
                /\ lastCheck' = seen @@
                       [suspended |-> FALSE, reset |-> FALSE, resumedAt |-> now]
                /\ pc' = "request"
                /\ requestsSent' = requestsSent + 1
                /\ UNCHANGED <<lastResetTime, wakeAt>>
    /\ UNCHANGED <<now, attempt, estimatedInputTokens, result, thrown,
                   retryDelays, lastError, caughtErrors>>

\* A limiter that checks the limits again when its timer fires.
LimiterWakeRechecking ==
    /\ UNCHANGED notClaude
    /\ pc = "limiterWait"
    /\ now' = wakeAt
    /\ pc' = "attempt"
    /\ UNCHANGED <<requestsThisMinute, tokensThisMinute, lastResetTime,
                   attempt, estimatedInputTokens, wakeAt, result, thrown,
                   attemptsMade, requestsSent, retryDelays, lastError,
                   caughtErrors, admittedSinceReset, admittedTokens,
                   lastCheck>>

\* The timer of checkRateLimits fires: counters reset, the call is counted,
\* checkRateLimits returns and the remote request is sent.
LimiterWake ==
    /\ UNCHANGED notClaude
    /\ pc = "limiterWait"
    /\ now' = wakeAt
    /\ requestsThisMinute' = 0 + 1
    /\ tokensThisMinute' = 0 + estimatedInputTokens
    /\ lastResetTime' = now'
    /\ admittedSinceReset' = 1
    /\ admittedTokens' = estimatedInputTokens
    /\ lastCheck' = [lastCheck EXCEPT !.reset = TRUE, !.resumedAt = now']
    /\ pc' = "request"
    /\ requestsSent' = requestsSent + 1
    /\ UNCHANGED <<attempt, estimatedInputTokens, wakeAt, result, thrown,
                   attemptsMade, retryDelays, lastError, caughtErrors>>

\* A retry that is made as soon as the attempt has failed.
RetryDueAtOnce(t) == t

\* setTimeout(resolve, CLAUDE_CONFIG.RETRY_DELAY): when the timer that is
\* set at time t is due
RetryDue(t) == t + RETRY_DELAY

\* An empty response that is not retried: the error is thrown at once.
AttemptFailedFast(message) ==
    /\ lastError' = message
    /\ caughtErrors' = Append(caughtErrors, message)
    /\ IF IsLastAttempt(attempt) \/ message = EmptyResponseMessage
       THEN /\ thrown' = TerminalError(message)
            /\ pc' = "threw"
            /\ UNCHANGED wakeAt
       ELSE /\ wakeAt' = RetryDue(now)
            /\ pc' = "retryDelay"
            /\ UNCHANGED thrown
    /\ UNCHANGED <<requestsThisMinute, tokensThisMinute, lastResetTime, now,
                   attempt, estimatedInputTokens, result, attemptsMade,
                   requestsSent, retryDelays, admittedSinceReset,
                   admittedTokens, lastCheck>>

\* The catch block of claudeAPICall for an error with the given message.
AttemptFailed(message) ==
    /\ lastError' = message
    /\ caughtErrors' = Append(caughtErrors, message)
    /\ IF IsLastAttempt(attempt)
       THEN /\ thrown' = TerminalError(message)
            /\ pc' = "threw"
            /\ UNCHANGED wakeAt
       ELSE /\ wakeAt' = RetryDue(now)
            /\ pc' = "retryDelay"
            /\ UNCHANGED thrown
    /\ UNCHANGED <<requestsThisMinute, tokensThisMinute, lastResetTime, now,
                   attempt, estimatedInputTokens, result, attemptsMade,
                   requestsSent, retryDelays, admittedSinceReset,
                   admittedTokens, lastCheck>>

\* A loop whose successful attempt does not return: the summary is kept and
\* the loop goes to its next iteration.
RequestReturnsAndGoesOn(text) ==
    /\ UNCHANGED notClaude
    /\ pc = "request"
    /\ text # ""
    /\ result' = [summary_text |-> text, attempt |-> attempt + 1]
    /\ attempt' = attempt + 1
    /\ pc' = IF LoopContinues(attempt + 1) THEN "attempt" ELSE "returned"
    /\ UNCHANGED <<requestsThisMinute, tokensThisMinute, lastResetTime,
                   now, estimatedInputTokens, wakeAt, thrown,
                   attemptsMade, requestsSent, retryDelays, lastError,
                   caughtErrors, admittedSinceReset, admittedTokens,
                   lastCheck>>

\* anthropic.messages.create resolves, with a text or with an empty content.
RequestReturns(text) ==
    /\ UNCHANGED notClaude
    /\ pc = "request"
    /\ IF text = ""
       THEN AttemptFailed(EmptyResponseMessage)
       ELSE /\ result' = [summary_text |-> text, attempt |-> attempt + 1]
            /\ pc' = "returned"
            /\ UNCHANGED <<requestsThisMinute, tokensThisMinute, lastResetTime,
                           now, attempt, estimatedInputTokens, wakeAt, thrown,
                           attemptsMade, requestsSent, retryDelays, lastError, caughtErrors,
                           admittedSinceReset,
                   admittedTokens, lastCheck>>

\* anthropic.messages.create rejects.
RequestThrows(message) ==
    /\ UNCHANGED notClaude
    /\ pc = "request"
    /\ AttemptFailed(message)

\* A retry that sends the request again without asking the limiter.
RetryWakeResending ==
    /\ UNCHANGED notClaude
    /\ pc = "retryDelay"
    /\ now' = wakeAt
    /\ retryDelays' = Append(retryDelays, wakeAt - now)
    /\ attempt' = attempt + 1
    /\ attemptsMade' = attemptsMade + 1
    /\ requestsSent' = requestsSent + 1
    /\ pc' = "request"
    /\ UNCHANGED <<requestsThisMinute, tokensThisMinute, lastResetTime,
                   estimatedInputTokens, wakeAt, thrown, result,
                   lastError, caughtErrors, admittedSinceReset, admittedTokens, lastCheck>>

\* The retry timer fires; the for loop goes to its next iteration, or ends
\* (and claudeAPICall returns undefined) when its condition no longer holds.
RetryWake ==
    /\ UNCHANGED notClaude
    /\ pc = "retryDelay"
    /\ now' = wakeAt
    /\ retryDelays' = Append(retryDelays, wakeAt - now)
    /\ attempt' = attempt + 1
    /\ IF LoopContinues(attempt + 1)
       THEN pc' = "attempt" /\ UNCHANGED result
       ELSE pc' = "returned" /\ result' = [undefined |-> TRUE]
    /\ UNCHANGED <<requestsThisMinute, tokensThisMinute, lastResetTime,
                   estimatedInputTokens, wakeAt, thrown, attemptsMade,
                   requestsSent, lastError, caughtErrors, admittedSinceReset,
                   admittedTokens, lastCheck>>

\* Time passes while the remote request is in flight or between two stores.
Tick ==
    /\ UNCHANGED notClaude
    /\ pc \in {"idle", "request", "returned", "threw"}
    /\ now <= MaxNow
    /\ now' = now + TickMs
    /\ UNCHANGED <<requestsThisMinute, tokensThisMinute, lastResetTime,
                   pc, attempt, estimatedInputTokens, wakeAt, result, thrown,
                   attemptsMade, requestsSent, retryDelays, lastError, caughtErrors,
                   admittedSinceReset,
                   admittedTokens, lastCheck>>

NextClaude ==
    \/ \E est \in Estimates : StartCall(est)
    \/ CheckRateLimits
    \/ LimiterWake
    \/ \E text \in {"", "summary"} : RequestReturns(text)
    \/ \E message \in RemoteErrors : RequestThrows(message)
    \/ RetryWake
    \/ Tick

(***************************************************************************)
(* Part 2: routes/v1/ai.routes.js (runAIProcessing),                       *)
(* utils/formatStoreDataForAI.js, services/supabaseServicesAI.js           *)
(***************************************************************************)

\* Rows of the stores table that the run's query can return.
NumStores == 3
\* BATCH_SIZE of fetchStoresDb: the page size (50 in the source).
AI_FETCH_BATCH_SIZE == 2
\* the batch size of writeAISummariesToDb (the literal 50 in the source).
AI_WRITE_BATCH_SIZE == 2
\* the retry ceiling of writeAISummariesToDb (the literal 3)
AI_WRITE_RETRIES == 3
\* the review-count gate of runAIProcessing (the literal 10)
MIN_REVIEWS == 10

AIPlaceIds == 1..NumStores
\* review counts on either side of the gate
ReviewCounts == {MIN_REVIEWS - 1, MIN_REVIEWS}

\* null, and the undefined a missing property reads as
Null == [null |-> TRUE]
Undefined == [undefined |-> TRUE]
PlaceholderSummary ==
    [summary_text |-> "No summary available: insufficient reviews",
     token_usage |-> 0]
GeneratedSummary ==
    [summary_text |-> "summary", token_usage |-> "usage"]

NoPage == [currentBatchIndex |-> 0, hasMoreStores |-> TRUE,
           formattedStores |-> <<>>, idx |-> 0, processedStores |-> <<>>,
           \* the limit of the options the fetcher was made with
           limit |-> Null]
NoWrite == [i |-> 0, retryCount |-> 0, pos |-> 0,
            successful |-> <<>>, failed |-> <<>>]
NoHistory == [fetched |-> {}, summaryFailed |-> {}, writeFailed |-> {},
              readFailed |-> FALSE, thrown |-> NoValue,
              inFlight |-> {}, classified |-> <<>>,
              \* the number of stores of each page returned so far
              returned |-> <<>>]
NewProcessingDetails ==
    [totalStores |-> 0, processedStores |-> 0,
     failedStores |-> <<>>, skippedStores |-> <<>>]

\* The place_ids of the entries of a list of records with a place_id.
PlaceIdsOf(list) == {list[k].place_id : k \in 1..Len(list)}
SeqRange(seq) == {seq[k] : k \in 1..Len(seq)}

\* The part of a sequence from index a to index b (1-based, clipped).
Slice(seq, a, b) ==
    [k \in 1..((IF b < Len(seq) THEN b ELSE Len(seq)) - a + 1)
        |-> seq[a + k - 1]]

\* The place_ids up to n of the rows whose ai_summary is null, in the order
\* of the table.
RECURSIVE UnsummarizedUpTo(_, _)
UnsummarizedUpTo(table, n) ==
    IF n = 0 THEN <<>>
    ELSE IF table[n].ai_summary = Null
         THEN Append(UnsummarizedUpTo(table, n - 1), n)
         ELSE UnsummarizedUpTo(table, n - 1)

\* Property access of JavaScript: a missing property reads as undefined.
Field(obj, name) ==
    IF name \in DOMAIN obj THEN [value |-> obj[name]] ELSE Undefined

\* The relational comparison a < b of JavaScript with a number on the right:
\* undefined converts to NaN and the comparison is false.
JsLessThan(a, b) == IF a = Undefined THEN FALSE ELSE a.value < b

\* fetchStoresDb in mode "state": rows of the listed states whose ai_summary
\* is null
UnsummarizedRows(table) == UnsummarizedUpTo(table, NumStores)

\* The limit of the options of a processing mode: null (no limit) or a
\* positive integer, the values fetchStoresDb accepts.
MaxLimit == 4
ModeLimits == {Null} \cup {[value |-> n] : n \in 1..MaxLimit}

\* A page limit that leaves the limit of the options out.
PageLimitOfRangeOnly(limit, startIndex) == AI_FETCH_BATCH_SIZE

\* limit ? Math.min(BATCH_SIZE, limit - startIndex) : BATCH_SIZE, the row
\* count given to .limit(), which replaces the count of .range()
PageLimit(limit, startIndex) ==
    IF limit # Null
    THEN IF limit.value - startIndex < AI_FETCH_BATCH_SIZE
         THEN limit.value - startIndex
         ELSE AI_FETCH_BATCH_SIZE
    ELSE AI_FETCH_BATCH_SIZE

\* hasMore of fetchNextBatch for a page of length rows
HasMore(length, limit, startIndex) ==
    /\ length = AI_FETCH_BATCH_SIZE
    /\ (limit = Null \/ startIndex + AI_FETCH_BATCH_SIZE < limit.value)

\* fetchNextBatch: the rows of the query from the offset startIndex, as many
\* as the page limit allows, each row with the selected columns
FetchRange(table, startIndex, limit) ==
    LET rows == UnsummarizedRows(table)
        ids == Slice(rows, startIndex + 1,
                     startIndex + PageLimit(limit, startIndex))
    IN  [k \in 1..Len(ids) |->
            [place_id |-> ids[k], name |-> "name",
             reviews_count |-> table[ids[k]].reviews_count]]

\* formatStoreDataForAI: the object it returns
formatStoreDataForAI(store) ==
    [place_id |-> store.place_id,
     storeTextForAI |-> <<"=== STORE INFORMATION ===", store.name>>,
     ai_summary |-> Null]

\* runAIProcessing: "Check if store has sufficient reviews"
InsufficientReviews(store) ==
    JsLessThan(Field(store, "reviews_count"), MIN_REVIEWS)

\* the reason pushed to skippedStores:
\* `Insufficient reviews (${store.reviews_count}/10 required)`
SkipReason(store) ==
    [count |-> Field(store, "reviews_count"), required |-> MIN_REVIEWS]

\* runAIProcessing is triggered: fetchStoresDb validates its options and
\* returns the paginated fetcher.
RunAIProcessing(limit) ==
    /\ UNCHANGED notAI
    /\ aiPc = "idle"
    /\ aiPc' = "fetch"
    /\ processingDetails' = NewProcessingDetails
    /\ page' = [NoPage EXCEPT !.limit = limit]
    /\ UNCHANGED <<aiTable, sw, claudeCalls, successfulIds, aiHistory>>

\* The end of an iteration of the while loop: the offset advances by the
\* page size and the loop condition is tested.
NextPage(pg) ==
    /\ page' = [pg EXCEPT
                   !.currentBatchIndex = @ + AI_FETCH_BATCH_SIZE]
    /\ aiPc' = IF pg.hasMoreStores THEN "fetch" ELSE "done"

\* After the for loop of a page: the page's results are written if there
\* are any.
EndOfPage(pg) ==
    IF Len(pg.processedStores) > 0
    THEN /\ page' = pg
         /\ aiPc' = "write"
         /\ sw' = [NoWrite EXCEPT !.pos = 1]
    ELSE /\ NextPage(pg)
         /\ UNCHANGED sw

\* new Error(`AI processing job failed: ${error.message}`) with
\* originalError = error
EnhancedError(error) ==
    [message |-> <<"AI processing job failed: ", error>>,
     originalError |-> error]

\* A runAIProcessing that takes a page whose query failed for an empty page
\* and ends its loop.
QueryFailedAsEmptyPage(error) ==
    /\ aiPc' = "done"
    /\ aiHistory' = [aiHistory EXCEPT !.readFailed = TRUE]
    /\ page' = [page EXCEPT !.hasMoreStores = FALSE]
    /\ UNCHANGED processingDetails

\* fetchNextBatch throws the error of its query: the catch of
\* runAIProcessing wraps it and throws.
QueryFailed(error) ==
    /\ aiPc' = "failed"
    /\ aiHistory' = [aiHistory EXCEPT !.readFailed = TRUE,
                                      !.thrown = EnhancedError(error)]
    /\ UNCHANGED <<page, processingDetails>>

\* storeFetcher.fetchNextBatch(currentBatchIndex) and the formatting of the
\* page; a query error is thrown out of runAIProcessing as a wrapped error.
FetchNextBatch(queryFails) ==
    /\ UNCHANGED notAI
    /\ aiPc = "fetch"
    /\ IF queryFails
       THEN QueryFailed("query error")
       ELSE LET stores == FetchRange(aiTable, page.currentBatchIndex,
                                     page.limit)
                hasMore == HasMore(Len(stores), page.limit,
                                   page.currentBatchIndex)
            IN  IF Len(stores) = 0
                THEN /\ aiPc' = "done"
                     /\ page' = [page EXCEPT !.hasMoreStores = hasMore]
                     /\ aiHistory' = [aiHistory EXCEPT
                            !.returned = Append(@, 0)]
                     /\ UNCHANGED processingDetails
                ELSE /\ aiPc' = "store"
                     /\ aiHistory' = [aiHistory EXCEPT
                            !.fetched = @ \cup PlaceIdsOf(stores),
                            !.classified = <<>>,
                            !.returned = Append(@, Len(stores))]
                     /\ processingDetails' =
                            [processingDetails EXCEPT
                                !.totalStores = @ + Len(stores)]
                     /\ page' = [page EXCEPT
                            !.hasMoreStores = hasMore,
                            !.formattedStores =
                                [k \in 1..Len(stores) |->
                                    formatStoreDataForAI(stores[k])],
                            !.idx = 1,
                            !.processedStores = <<>>]
    /\ UNCHANGED <<aiTable, sw, claudeCalls, successfulIds>>

\* A loop that takes the stores of the page from the last to the first.
CurrentStoreReversed(pg) ==
    pg.formattedStores[Len(pg.formattedStores) - pg.idx + 1]

\* for (const store of formattedStores): the store of the iteration
CurrentStore(pg) == pg.formattedStores[pg.idx]

\* The iteration of a store that passes the review gate up to its await:
\* claudeAPICall(store) is called.
CallClaudeAPI ==
    /\ UNCHANGED notAI
    /\ aiPc = "store"
    /\ ~InsufficientReviews(CurrentStore(page))
    /\ aiPc' = "summarizing"
    /\ claudeCalls' = claudeCalls \cup {CurrentStore(page).place_id}
    /\ aiHistory' = [aiHistory EXCEPT
           !.inFlight = @ \cup {CurrentStore(page).place_id}]
    /\ UNCHANGED <<aiTable, processingDetails, page, sw, successfulIds>>

\* The iteration of a store that is skipped, or the rest of the iteration
\* of a store once its claudeAPICall has settled.  summarized says whether
\* the call returned a summary or threw.
ProcessStore(summarized) ==
    /\ UNCHANGED notAI
    /\ aiPc \in {"store", "summarizing"}
    /\ aiPc = "store" => InsufficientReviews(CurrentStore(page))
    /\ LET store == CurrentStore(page)
           last == page.idx = Len(page.formattedStores)
           step(pg) == IF last
                       THEN EndOfPage(pg)
                       ELSE /\ page' = [pg EXCEPT !.idx = @ + 1]
                            /\ aiPc' = "store"
                            /\ UNCHANGED sw
       IN  IF aiPc = "store"
           THEN /\ processingDetails' =
                       [processingDetails EXCEPT !.skippedStores =
                           Append(@, [place_id |-> store.place_id,
                                      reason |-> SkipReason(store)])]
                /\ step([page EXCEPT !.processedStores =
                            Append(@, [place_id |-> store.place_id,
                                       ai_summary |-> PlaceholderSummary])])
                /\ aiHistory' = [aiHistory EXCEPT
                       !.classified = Append(@, store.place_id)]
           ELSE IF summarized
                THEN /\ step([page EXCEPT !.processedStores =
                                Append(@, [place_id |-> store.place_id,
                                           ai_summary |-> GeneratedSummary])])
                     /\ aiHistory' = [aiHistory EXCEPT
                            !.inFlight = @ \ {store.place_id},
                            !.classified = Append(@, store.place_id)]
                     /\ UNCHANGED processingDetails
                ELSE /\ processingDetails' =
                            [processingDetails EXCEPT !.failedStores =
                                Append(@, [place_id |-> store.place_id,
                                           error |-> "summary failed"])]
                     /\ aiHistory' = [aiHistory EXCEPT
                            !.summaryFailed = @ \cup {store.place_id},
                            !.inFlight = @ \ {store.place_id},
                            !.classified = Append(@, store.place_id)]
                     /\ step(page)
    /\ UNCHANGED <<aiTable, successfulIds, claudeCalls>>

\* A runAIProcessing that throws when writeAISummariesToDb reports failed
\* stores.
WriteReturnsThrowing(successful, failed) ==
    IF Len(failed) > 0
    THEN /\ aiPc' = "failed"
         /\ UNCHANGED <<processingDetails, successfulIds, page>>
    ELSE /\ processingDetails' =
                [processingDetails EXCEPT
                    !.processedStores = @ + Len(successful)]
         /\ successfulIds' =
                successfulIds \o
                    [k \in 1..Len(successful) |-> successful[k].place_id]
         /\ NextPage(page)

\* writeAISummariesToDb returns: runAIProcessing adds its results to the
\* ledger and ends the iteration of the while loop.
WriteReturns(successful, failed) ==
    /\ processingDetails' =
           [processingDetails EXCEPT
               !.processedStores = @ + Len(successful),
               !.failedStores = @ \o failed]
    /\ successfulIds' =
           successfulIds \o [k \in 1..Len(successful) |-> successful[k].place_id]
    /\ NextPage(page)

\* writeAISummariesToDb goes on to its next batch, or returns.
NextWriteBatch(successful, failed) ==
    IF sw.i + AI_WRITE_BATCH_SIZE < Len(page.processedStores)
    THEN /\ sw' = [i |-> sw.i + AI_WRITE_BATCH_SIZE, retryCount |-> 0,
                   pos |-> 1, successful |-> successful, failed |-> failed]
         /\ UNCHANGED <<aiPc, page, processingDetails, successfulIds>>
    ELSE /\ sw' = [sw EXCEPT !.successful = successful, !.failed = failed]
         /\ WriteReturns(successful, failed)

\* A retry counter that starts over instead of reaching the third error.
RetryCountWrapping(retryCount) == (retryCount + 1) % (AI_WRITE_RETRIES - 1)

\* retryCount++ in the catch of a batch of writeAISummariesToDb
RetryCountAfter(retryCount) == retryCount + 1

\* writeAISummariesToDb: the update of one store of the current batch.
UpdateSummary(updateFails) ==
    /\ UNCHANGED notAI
    /\ aiPc = "write"
    /\ LET batch == Slice(page.processedStores, sw.i + 1,
                          sw.i + AI_WRITE_BATCH_SIZE)
           store == batch[sw.pos]
       IN  IF updateFails
           THEN \* catch: the batch is retried, or given up at the third error
                /\ UNCHANGED aiTable
                /\ IF RetryCountAfter(sw.retryCount) = AI_WRITE_RETRIES
                   THEN /\ NextWriteBatch(sw.successful,
                               sw.failed \o [k \in 1..Len(batch) |->
                                   [place_id |-> batch[k].place_id,
                                    error |-> "update failed"]])
                        /\ aiHistory' = [aiHistory EXCEPT
                               !.writeFailed = @ \cup PlaceIdsOf(batch)]
                   ELSE /\ sw' = [sw EXCEPT
                                   !.retryCount = RetryCountAfter(@),
                                   !.pos = 1]
                        /\ UNCHANGED <<aiPc, page, processingDetails,
                                       successfulIds, aiHistory>>
           ELSE /\ aiTable' = [aiTable EXCEPT
                                   ![store.place_id].ai_summary = store.ai_summary]
                /\ IF sw.pos = Len(batch)
                   THEN NextWriteBatch(Append(sw.successful, store), sw.failed)
                   ELSE /\ sw' = [sw EXCEPT !.pos = @ + 1,
                                      !.successful = Append(@, store)]
                        /\ UNCHANGED <<aiPc, page, processingDetails,
                                       successfulIds>>
                /\ UNCHANGED aiHistory
    /\ UNCHANGED claudeCalls

NextAI ==
    \/ \E limit \in ModeLimits : RunAIProcessing(limit)
    \/ \E queryFails \in BOOLEAN : FetchNextBatch(queryFails)
    \/ CallClaudeAPI
    \/ \E summarized \in BOOLEAN : ProcessStore(summarized)
    \/ \E updateFails \in BOOLEAN : UpdateSummary(updateFails)

(***************************************************************************)
(* Part 3: services/apifyService.js (transformStoreData) and               *)
(* services/supabaseService.js (writeStores)                               *)
(***************************************************************************)

\* BATCH_SIZE of writeStores: the chunk size (100 in the source).
STORE_BATCH_SIZE == 2
\* MAX_RETRIES of writeStores
STORE_MAX_RETRIES == 3
\* Raw provider records of one ingestion call.
MaxItems == 3
\* place_ids the provider knows
MaxPlaceId == 2
\* Ingestion calls made one after the other.
MaxCalls == 2

\* The callers of writeStores: the jurisdictions of a scrape.
NumStates == 3
Writers == 1..NumStates

\* placeId of a raw record: 0 stands for a record without one
NoPlaceId == 0
RawPlaceIds == 0..MaxPlaceId
\* title of a raw record
Titles == {"Scooter Shop", "Scooter Repair", "Walmart Supercenter"}

\* All sequences over S of length 1..n.
SeqsUpTo(S, n) == UNION {[1..k -> S] : k \in 1..n}

\* A raw provider record.
RawItem(placeId, title) ==
    [placeId |-> placeId, title |-> title, location |-> "complete"]

\* A transformation that does not look at the required fields.
transformStoreDataUnvalidated(item, t) ==
    [place_id |-> item.placeId, name |-> item.title,
     scraped_at |-> t, last_updated |-> t]

\* transformStoreData of apifyService.js: placeId and title are required,
\* and a location block (none, complete or incomplete) needs lat and lng; a
\* record that fails validation gives null; the timestamps are the time of
\* the transformation.
transformStoreData(item, t) ==
    IF \/ item.placeId = NoPlaceId
       \/ item.title = ""
       \/ item.location = "incomplete"
    THEN Null
    ELSE [place_id |-> item.placeId, name |-> item.title,
          scraped_at |-> t, last_updated |-> t]

\* The earlier transformStoreData: no validation, and the AI fields are set
\* to their defaults.
transformStoreDataLegacy(item, t) ==
    [place_id |-> item.placeId, name |-> item.title, ai_summary |-> Null,
     scraped_at |-> t, last_updated |-> t]

\* items.map(transformStoreData).filter((store) => store !== null)
RECURSIVE TransformAll(_, _)
TransformAll(items, t) ==
    IF Len(items) = 0 THEN <<>>
    ELSE LET r == transformStoreData(items[Len(items)], t)
             rest == TransformAll(SubSeq(items, 1, Len(items) - 1), t)
         IN  IF r = Null THEN rest ELSE Append(rest, r)

\* crawlerGooglePlaces: the stores whose lower-cased name includes
\* "walmart" or "target" are filtered out
IsWalmart(name) == name \in {"Walmart Supercenter", "WALMART Auto Care"}
IsTarget(name) == name \in {"Target", "Target Optical"}
IsRetailer(name) == IsWalmart(name) \/ IsTarget(name)
FilterRetailers(stores) ==
    SelectSeq(stores, LAMBDA store : ~IsRetailer(store.name))

\* items.map(transformStoreData) of the earlier version
TransformAllLegacy(items, t) ==
    [k \in 1..Len(items) |-> transformStoreDataLegacy(items[k], t)]

\* A filter that lets every store pass.
IsValidStoreAlways(store) == TRUE

\* writeStores: a store passes the filter if it has a place_id
IsValidStore(store) == store.place_id # NoPlaceId

\* A lookup that keeps the result of its latest chunk only.
AddExistingLatest(existingStores, data) == data

\* writeStores: the lookup result of a chunk is added to existingStores
AddExisting(existingStores, data) == existingStores \o data

\* The place_ids of the rows of the table, and the rows of a place_id.
PlaceIdsIn(table) == {r.place_id : r \in table}
RowsOf(table, p) == {r \in table : r.place_id = p}

\* The columns of a row a record does not provide keep their value.
Overlay(row, rec) ==
    [f \in DOMAIN row |-> IF f \in DOMAIN rec THEN rec[f] ELSE row[f]]

\* An insert that takes no account of a row with the place_id.
InsertRow(table, rec, id) ==
    table \cup
        {Overlay([id |-> id, place_id |-> rec.place_id, name |-> "",
                  ai_summary |-> Null, ai_summary_updated_at |-> Null,
                  scraped_at |-> rec.scraped_at,
                  last_updated |-> rec.last_updated], rec)}

\* upsert(..., { onConflict: "place_id" }) of one record: a row with the
\* place_id is updated in the columns the record provides; otherwise a row
\* is inserted with a fresh surrogate id and the column defaults.
UpsertRow(table, rec, id) ==
    IF rec.place_id \in PlaceIdsIn(table)
    THEN {IF r.place_id = rec.place_id THEN Overlay(r, rec) ELSE r :
             r \in table}
    ELSE table \cup
             {Overlay([id |-> id, place_id |-> rec.place_id, name |-> "",
                       ai_summary |-> Null,
                       ai_summary_updated_at |-> Null,
                       scraped_at |-> rec.scraped_at,
                       last_updated |-> rec.last_updated], rec)}

\* The upsert of a batch: [table, nextId] after its records are applied.
RECURSIVE UpsertBatch(_, _, _)
UpsertBatch(table, id, batch) ==
    IF Len(batch) = 0 THEN [table |-> table, nextId |-> id]
    ELSE LET rec == batch[1]
             fresh == rec.place_id \notin PlaceIdsIn(table)
         IN  UpsertBatch(UpsertRow(table, rec, id),
                         IF fresh THEN id + 1 ELSE id,
                         SubSeq(batch, 2, Len(batch)))

\* A batch that names a place_id twice cannot be upserted in one statement
\* (place_id is UNIQUE: the conflict update cannot affect a row twice).
HasDuplicates(batch) ==
    \E j, k \in 1..Len(batch) :
        j < k /\ batch[j].place_id = batch[k].place_id

\* select("place_id").in("place_id", placeIdChunk)
SelectExisting(table, placeIdChunk) ==
    SelectSeq(placeIdChunk, LAMBDA p : p \in PlaceIdsIn(table))

\* the rows of the returned rows or records that were in existingPlaceIds
Classified(processed, existingPlaceIds, updated) ==
    SelectSeq(processed,
              LAMBDA st : (st.place_id \in existingPlaceIds) = updated)

IdleWrite == [pc |-> "idle"]

\* writeStores up to its first await: the input is checked and filtered.
BeginWriteStores(stores, table) ==
    LET validStores == SelectSeq(stores, IsValidStore)
    IN  IF Len(stores) = 0
        THEN [pc |-> "threw", error |-> "No stores provided to write",
              stores |-> stores]
        ELSE IF Len(validStores) = 0
        THEN [pc |-> "threw",
              error |-> "No valid stores to write after filtering",
              stores |-> stores]
        ELSE [pc |-> "lookup",
              stores |-> stores,
              validStores |-> validStores,
              placeIds |-> [k \in 1..Len(validStores) |->
                               validStores[k].place_id],
              existingStores |-> <<>>,
              i |-> 0,
              attempt |-> 1,
              results |-> [successful |-> <<>>, failed |-> <<>>,
                           newStores |-> <<>>, updatedStores |-> <<>>],
              \* history: the place_ids in the table when the call began,
              \* and for each chunk written its attempts and its outcome
              presentAtCall |-> PlaceIdsIn(table),
              chunkLog |-> <<>>,
              \* history: every upsert attempt, in the order they were made
              attemptLog |-> <<>>,
              \* history: a lookup ran out of attempts
              lookupFailed |-> FALSE]

\* A lookup out of attempts that goes on to the upserts with the rows it
\* has found so far.
LookupGivesUpQuietly(c) ==
    [c EXCEPT !.pc = "upsert", !.i = 0, !.attempt = 1,
              !.lookupFailed = TRUE]

\* The lookup of a chunk failed at attempt MAX_RETRIES: the error is
\* thrown out of the loops, logged by the catch of writeStores and thrown
\* again.
LookupGivesUp(c) ==
    [c EXCEPT !.pc = "threw", !.lookupFailed = TRUE] @@
        [error |-> "Failed to fetch existing stores chunk"]

\* One attempt of the lookup of existing rows for a chunk of place_ids.
LookupChunk(w, queryFails) ==
    /\ UNCHANGED notStores
    /\ ws[w].pc = "lookup"
    /\ LET c == ws[w]
           placeIdChunk == Slice(c.placeIds, c.i + 1, c.i + STORE_BATCH_SIZE)
       IN  IF queryFails
           THEN IF c.attempt = STORE_MAX_RETRIES
                THEN ws' = [ws EXCEPT ![w] = LookupGivesUp(c)]
                ELSE ws' = [ws EXCEPT ![w].attempt = @ + 1]
           ELSE LET existing ==
                        AddExisting(c.existingStores,
                                    SelectExisting(storesTable, placeIdChunk))
                IN  IF c.i + STORE_BATCH_SIZE < Len(c.placeIds)
                    THEN ws' = [ws EXCEPT ![w] = [c EXCEPT
                             !.existingStores = existing,
                             !.i = @ + STORE_BATCH_SIZE,
                             !.attempt = 1]]
                    ELSE ws' = [ws EXCEPT ![w] = [c EXCEPT
                             !.existingStores = existing,
                             !.pc = "upsert",
                             !.i = 0,
                             !.attempt = 1]]
    /\ UNCHANGED <<storesTable, nextId, clock, calls>>

\* A write loop that a chunk out of attempts brings to its end.
AfterChunkAborting(c, results, entry) ==
    IF entry.ok /\ c.i + STORE_BATCH_SIZE < Len(c.validStores)
    THEN [c EXCEPT !.results = results,
                   !.chunkLog = Append(@, entry),
                   !.i = @ + STORE_BATCH_SIZE,
                   !.attempt = 1]
    ELSE [c EXCEPT !.results = results,
                   !.chunkLog = Append(@, entry),
                   !.pc = "returned"]

\* writeStores goes on to its next chunk, or returns its summary.
AfterChunk(c, results, entry) ==
    IF c.i + STORE_BATCH_SIZE < Len(c.validStores)
    THEN [c EXCEPT !.results = results,
                   !.chunkLog = Append(@, entry),
                   !.i = @ + STORE_BATCH_SIZE,
                   !.attempt = 1]
    ELSE [c EXCEPT !.results = results,
                   !.chunkLog = Append(@, entry),
                   !.pc = "returned"]

\* A retry loop that only its last attempt ends.
ChunkDecidedAtLastAttempt(n, ok) == n = STORE_MAX_RETRIES

\* The retry loop of a chunk is left (break) after a successful upsert and
\* after the error of attempt MAX_RETRIES.
ChunkDecided(n, ok) == ok \/ n = STORE_MAX_RETRIES

\* One attempt of the upsert of a chunk of validStores.
UpsertChunk(w, upsertFails) ==
    /\ UNCHANGED notStores
    /\ ws[w].pc = "upsert"
    /\ HasDuplicates(Slice(ws[w].validStores, ws[w].i + 1,
                           ws[w].i + STORE_BATCH_SIZE)) => upsertFails
    /\ LET c == [ws[w] EXCEPT !.attemptLog = Append(@,
                    [i |-> ws[w].i, attempt |-> ws[w].attempt,
                     ok |-> ~upsertFails])]
           batch == Slice(c.validStores, c.i + 1, c.i + STORE_BATCH_SIZE)
           existingPlaceIds == SeqRange(c.existingStores)
       IN  IF upsertFails
           THEN /\ UNCHANGED <<storesTable, nextId>>
                /\ IF ChunkDecided(c.attempt, FALSE)
                   THEN ws' = [ws EXCEPT ![w] =
                            AfterChunk(c,
                                [c.results EXCEPT !.failed = @ \o batch],
                                [attempts |-> c.attempt, ok |-> FALSE])]
                   ELSE ws' = [ws EXCEPT ![w] =
                            [c EXCEPT !.attempt = @ + 1]]
           ELSE LET after == UpsertBatch(storesTable, nextId, batch)
                    results == [c.results EXCEPT
                                   !.successful = @ \o batch,
                                   !.updatedStores = @ \o
                                       Classified(batch, existingPlaceIds, TRUE),
                                   !.newStores = @ \o
                                       Classified(batch, existingPlaceIds, FALSE)]
                IN  /\ storesTable' = after.table
                    /\ nextId' = after.nextId
                    /\ IF ChunkDecided(c.attempt, TRUE)
                       THEN ws' = [ws EXCEPT ![w] =
                                AfterChunk(c, results,
                                    [attempts |-> c.attempt, ok |-> TRUE])]
                       ELSE ws' = [ws EXCEPT ![w] =
                                [c EXCEPT !.results = results,
                                          !.attempt = @ + 1]]
    /\ UNCHANGED <<clock, calls>>

\* runLiveScrape scrapes its states one after the other: the raw records of
\* a scrape are transformed, by the transformStoreData of apifyService.js
\* or by the earlier one, and given to writeStores, which runs up to its
\* first await.
Ingest(w, placeIds, title, legacy) ==
    /\ UNCHANGED notStores
    /\ ws[w].pc \in {"idle", "returned", "threw"}
    /\ calls < MaxCalls
    /\ calls' = calls + 1
    /\ clock' = clock + 1
    /\ LET items == [k \in 1..Len(placeIds) |-> RawItem(placeIds[k], title)]
           stores == IF legacy THEN TransformAllLegacy(items, clock')
                     ELSE FilterRetailers(TransformAll(items, clock'))
       IN  ws' = [ws EXCEPT ![w] = BeginWriteStores(stores, storesTable)]
    /\ UNCHANGED <<storesTable, nextId>>

\* The AI job between the steps of an ingestion: writeAISummariesToDb
\* updates the row of a store that has no summary yet.
SummaryWritten(p) ==
    /\ UNCHANGED notStores
    /\ \E r \in RowsOf(storesTable, p) : r.ai_summary = Null
    /\ storesTable' =
           {IF r.place_id = p
            THEN [r EXCEPT !.ai_summary = GeneratedSummary,
                           !.ai_summary_updated_at = [value |-> clock]]
            ELSE r : r \in storesTable}
    /\ UNCHANGED <<nextId, clock, calls, ws>>

NextStores ==
    \/ \E placeIds \in SeqsUpTo(RawPlaceIds, MaxItems), title \in Titles,
          legacy \in BOOLEAN : Ingest(1, placeIds, title, legacy)
    \/ \E queryFails \in BOOLEAN : LookupChunk(1, queryFails)
    \/ \E upsertFails \in BOOLEAN : UpsertChunk(1, upsertFails)

(***************************************************************************)
(* Part 4: routes/v1/scrape.routes.js (processSingleState, runScrape),     *)
(* crawlerGooglePlaces and writeApifyRunDetails                            *)
(***************************************************************************)

\* BATCH_SIZE of scrape.routes.js: states scraped at once (25 in the source)
SCRAPE_BATCH_SIZE == 2
\* Raw provider records of the scrape of one state.
MaxScrapeItems == 1

\* scrapeConfig.states
States == [st \in 1..NumStates |-> st]

IdleScrape == [pc |-> "idle", i |-> 0, results |-> <<>>, summary |-> None]

IdleState ==
    [pc |-> "idle", storesLength |-> 0, validationFailures |-> 0,
     store_processing_results |-> None, runDetailsCalls |-> 0,
     result |-> None,
     \* history: the message of the error that writeStores threw, and
     \* whether every chunk of the write ran out of attempts
     storeError |-> None, everyChunkFailed |-> FALSE]

\* stateBatch = scrapeConfig.states.slice(i, i + BATCH_SIZE)
StateBatch(i) == Slice(States, i + 1, i + SCRAPE_BATCH_SIZE)

\* A launch of every state from the start of the batch on.
LaunchRest(calls_, i) ==
    [st \in DOMAIN calls_ |->
        IF st > i THEN [IdleState EXCEPT !.pc = "crawl"] ELSE calls_[st]]

\* stateBatch.map((state) => processSingleState(state)): each call runs up
\* to its first await, the call of crawlerGooglePlaces.
LaunchBatch(calls_, i) ==
    [st \in DOMAIN calls_ |->
        IF st \in SeqRange(StateBatch(i))
        THEN [IdleState EXCEPT !.pc = "crawl"]
        ELSE calls_[st]]

\* The summary that writeStores returns.
StoreSummary(c) ==
    [totalProcessed |-> Len(c.validStores),
     successful |-> Len(c.results.successful),
     failed |-> Len(c.results.failed),
     newStores |-> Len(c.results.newStores),
     updatedStores |-> Len(c.results.updatedStores)]

\* runScrape starts and launches its first batch.
RunScrape ==
    /\ UNCHANGED notScrape
    /\ scrape.pc = "idle"
    /\ scrape' = [IdleScrape EXCEPT !.pc = "batch"]
    /\ sc' = LaunchBatch(sc, 0)
    /\ UNCHANGED <<apifyRuns, storeVars>>

\* crawlerGooglePlaces returns: the items are transformed and filtered, and
\* processSingleState calls writeStores, which runs up to its first await.
CrawlerReturns(st, placeIds, title) ==
    /\ UNCHANGED notScrape
    /\ sc[st].pc = "crawl"
    /\ clock' = clock + 1
    /\ LET items == [k \in 1..Len(placeIds) |-> RawItem(placeIds[k], title)]
           transformed == TransformAll(items, clock')
           stores == FilterRetailers(transformed)
       IN  /\ ws' = [ws EXCEPT ![st] = BeginWriteStores(stores, storesTable)]
           /\ sc' = [sc EXCEPT ![st] = [@ EXCEPT
                  !.pc = "writing",
                  !.storesLength = Len(stores),
                  !.validationFailures = Len(items) - Len(transformed)]]
    /\ UNCHANGED <<storesTable, nextId, calls, scrape, apifyRuns>>

\* crawlerGooglePlaces throws: the catch of processSingleState returns.
CrawlerThrows(st) ==
    /\ UNCHANGED notScrape
    /\ sc[st].pc = "crawl"
    /\ sc' = [sc EXCEPT ![st] = [@ EXCEPT
           !.pc = "returned",
           !.result = [state |-> st, success |-> FALSE,
                       error |-> "Error scraping shop data",
                       storesProcessed |-> 0]]]
    /\ UNCHANGED <<scrape, apifyRuns, storeVars>>

\* history: writeStores upserted at least one chunk and every chunk failed
\* MAX_RETRIES times.
EveryChunkFailed(w) ==
    /\ "chunkLog" \in DOMAIN w
    /\ Len(w.chunkLog) > 0
    /\ \A k \in 1..Len(w.chunkLog) : ~w.chunkLog[k].ok

\* A processSingleState without the try around writeStores: the error of
\* writeStores goes to the catch of the function.
AfterWriteStoresRethrowing(st, call, w) ==
    IF w.pc = "returned"
    THEN [call EXCEPT
             !.pc = "runDetails",
             !.runDetailsCalls = @ + 1,
             !.everyChunkFailed = EveryChunkFailed(w),
             !.store_processing_results =
                 [summary |-> StoreSummary(w),
                  validationFailures |-> call.validationFailures]]
    ELSE [call EXCEPT
             !.pc = "returned",
             !.storeError = w.error,
             !.result = [state |-> st, success |-> FALSE,
                         error |-> w.error, storesProcessed |-> 0]]

\* processSingleState after writeStores: what writeStores returned, or the
\* message of what it threw, becomes store_processing_results, and
\* writeApifyRunDetails is called.
AfterWriteStores(st, call, w) ==
    [call EXCEPT
        !.pc = "runDetails",
        !.runDetailsCalls = @ + 1,
        !.storeError = IF w.pc = "threw" THEN w.error ELSE None,
        !.everyChunkFailed = EveryChunkFailed(w),
        !.store_processing_results =
            IF w.pc = "returned"
            THEN [summary |-> StoreSummary(w),
                  validationFailures |-> call.validationFailures]
            ELSE [error |-> w.error]]

\* writeStores has returned or thrown, and its locals are gone:
\* processSingleState sets store_processing_results and calls
\* writeApifyRunDetails.
StoresWritten(st) ==
    /\ UNCHANGED notScrape
    /\ sc[st].pc = "writing"
    /\ ws[st].pc \in {"returned", "threw"}
    /\ sc' = [sc EXCEPT ![st] = AfterWriteStores(st, sc[st], ws[st])]
    /\ ws' = [ws EXCEPT ![st] = IdleWrite]
    /\ UNCHANGED <<scrape, apifyRuns, storesTable, nextId, clock, calls>>

\* A processSingleState that logs the error of writeApifyRunDetails and
\* returns the outcome of the scrape.
RunDetailsErrorLogged(st, call) ==
    [state |-> st, success |-> TRUE,
     storesProcessed |-> call.storesLength, runId |-> st]

\* The catch of processSingleState for the error writeApifyRunDetails
\* threw: what it returns.
RunDetailsErrorCaught(st, call) ==
    [state |-> st, success |-> FALSE,
     error |-> "Failed to store Apify run details",
     storesProcessed |-> 0]

\* writeApifyRunDetails: the insert into apify_runs gives the row, or an
\* error that is wrapped and thrown into the catch of processSingleState.
WriteApifyRunDetails(st, insertFails) ==
    /\ UNCHANGED notScrape
    /\ sc[st].pc = "runDetails"
    /\ IF insertFails
       THEN /\ UNCHANGED apifyRuns
            /\ sc' = [sc EXCEPT ![st] = [@ EXCEPT
                   !.pc = "returned",
                   !.result = RunDetailsErrorCaught(st, sc[st])]]
       ELSE /\ apifyRuns' = [apifyRuns EXCEPT ![st] = Append(@,
                   [run_id |-> st,
                    store_processing_results |->
                        sc[st].store_processing_results])]
            /\ sc' = [sc EXCEPT ![st] = [@ EXCEPT
                   !.pc = "returned",
                   !.result = [state |-> st, success |-> TRUE,
                               storesProcessed |-> sc[st].storesLength,
                               runId |-> st]]]
    /\ UNCHANGED <<scrape, storeVars>>

\* A summary that puts every state in either list.
StatesWithAny(results, success) ==
    SelectSeq(States, LAMBDA st : st <= Len(results))

\* The states of the results that succeeded, or that did not.
StatesWith(results, success) ==
    SelectSeq(States, LAMBDA st :
        st <= Len(results) /\ results[st].value.success = success)

\* A wait that is over when the first call of the batch has returned.
AnySettled(i) == \E st \in SeqRange(StateBatch(i)) : sc[st].pc = "returned"

\* Promise.allSettled(batchPromises): every call of the batch has returned
AllSettled(i) == \A st \in SeqRange(StateBatch(i)) : sc[st].pc = "returned"

\* Promise.allSettled(batchPromises) resolves: the results are collected;
\* after the last batch the summary is made and returned.
BatchSettled ==
    /\ UNCHANGED notScrape
    /\ scrape.pc = "batch"
    /\ AllSettled(scrape.i)
    /\ LET batch == StateBatch(scrape.i)
           results == scrape.results \o
               [k \in 1..Len(batch) |->
                   [status |-> "fulfilled", value |-> sc[batch[k]].result]]
       IN  IF scrape.i + SCRAPE_BATCH_SIZE < Len(States)
           THEN scrape' = [scrape EXCEPT !.pc = "delay", !.results = results]
           ELSE scrape' = [scrape EXCEPT
                    !.pc = "done",
                    !.results = results,
                    !.summary = [successful |-> StatesWith(results, TRUE),
                                 failed |-> StatesWith(results, FALSE)]]
    /\ UNCHANGED <<sc, apifyRuns, storeVars>>

\* The delay between batches is over: the next batch is launched.
NextBatch ==
    /\ UNCHANGED notScrape
    /\ scrape.pc = "delay"
    /\ scrape' = [scrape EXCEPT !.pc = "batch", !.i = @ + SCRAPE_BATCH_SIZE]
    /\ sc' = LaunchBatch(sc, scrape.i + SCRAPE_BATCH_SIZE)
    /\ UNCHANGED <<apifyRuns, storeVars>>

NextScrape ==
    \/ RunScrape
    \/ \E st \in Writers, placeIds \in SeqsUpTo(RawPlaceIds, MaxScrapeItems),
          title \in Titles : CrawlerReturns(st, placeIds, title)
    \/ \E st \in Writers : CrawlerThrows(st)
    \/ \E st \in Writers, queryFails \in BOOLEAN : LookupChunk(st, queryFails)
    \/ \E st \in Writers, upsertFails \in BOOLEAN : UpsertChunk(st, upsertFails)
    \/ \E st \in Writers : StoresWritten(st)
    \/ \E st \in Writers, insertFails \in BOOLEAN :
          WriteApifyRunDetails(st, insertFails)
    \/ BatchSettled
    \/ NextBatch

(***************************************************************************)
(* Part 5: services/supabaseServicesAI.js (fetchStoresDb)                  *)
(***************************************************************************)

\* The limits tried are the multiples of 1/2 from -MaxLimitHalves/2 to
\* MaxLimitHalves/2.
MaxLimitHalves == 4
\* Pages fetched from one fetcher.
MaxQueries == 2

KnownModes == {"unprocessed", "single", "all", "state"}
FetchModes == KnownModes \cup {"everything"}
PlaceIdOptions == {Null, [str |-> ""], [str |-> "ChIJ6erpi"]}
StatesOptions == {Null, [list |-> <<>>], [list |-> <<"Ohio">>]}
LimitOptions ==
    {Null} \cup {[halves |-> h] : h \in (0 - MaxLimitHalves)..MaxLimitHalves}

FetchOptions ==
    [mode : FetchModes, place_id : PlaceIdOptions, states : StatesOptions,
     limit : LimitOptions]

\* !v of JavaScript, for null, a string or an array
Falsy(v) == v = Null \/ v = [str |-> ""]

\* Number.isInteger(limit)
IsInteger(limit) == limit.halves % 2 = 0

\* fetchStoresDb: the input validation section; the message of the error
\* it throws, if it throws.
ValidationError(o) ==
    IF o.mode \notin KnownModes
    THEN "Invalid mode"
    ELSE IF o.mode = "single" /\ Falsy(o.place_id)
    THEN "place_id is required when mode is 'single'"
    ELSE IF o.mode = "state" /\ Falsy(o.states)
    THEN "states array is required when mode is 'state'"
    ELSE IF o.limit # Null /\ (o.limit.halves <= 0 \/ ~IsInteger(o.limit))
    THEN "limit must be a positive integer or null"
    ELSE None

IdleFetch ==
    [pc |-> "idle", options |-> None, error |-> None, calls |-> 0,
     queries |-> 0]

\* fetchStoresDb(options): the options are validated and the query is
\* built; an error is logged and thrown again.
FetchStoresDb ==
    /\ UNCHANGED notFetch
    /\ fs.pc = "called"
    /\ LET error == ValidationError(fs.options)
       IN  fs' = [fs EXCEPT !.pc = IF error = None THEN "ready" ELSE "threw",
                            !.error = error,
                            !.calls = @ + 1]

\* fetchNextBatch of the fetcher: the paginated query is issued.
PaginatedQuery(queryFails) ==
    /\ UNCHANGED notFetch
    /\ fs.pc = "ready"
    /\ fs.queries < MaxQueries
    /\ fs' = [fs EXCEPT !.queries = @ + 1,
                        !.pc = IF queryFails THEN "queryThrew" ELSE "ready"]

NextFetch ==
    \/ FetchStoresDb
    \/ \E queryFails \in BOOLEAN : PaginatedQuery(queryFails)

(***************************************************************************)
(* Part 6: services/apifyService.js (crawlerGooglePlaces) as a function of *)
(* the items of the dataset                                                *)
(***************************************************************************)

\* Raw provider records of one dataset.
MaxRawItems == 3

\* The raw records: with or without a placeId, with a title or an empty
\* one, without a location block or with one that has, or lacks, lat and lng.
RawTitles == {"", "Scooter Shop", "WALMART Auto Care", "Target Optical"}
RawRecords ==
    [placeId : {NoPlaceId, 1}, title : RawTitles,
     location : {"none", "complete", "incomplete"}]

IdleCrawl ==
    [pc |-> "idle", items |-> <<>>, stores |-> <<>>,
     validationFailures |-> 0, walmartCount |-> 0, targetCount |-> 0,
     \* what fetchAndTransformDataset made of the dataset of the run
     dataset |-> [pc |-> "idle"]]

\* crawlerGooglePlaces from the items of the dataset to its return, or to
\* the error of the actor run that it throws again.
CrawlDataset(runFails) ==
    /\ UNCHANGED notCrawl
    /\ crawl.pc = "called"
    /\ IF runFails
       THEN /\ crawl' = [crawl EXCEPT !.pc = "threw"]
            /\ UNCHANGED clock
       ELSE /\ clock' = clock + 1
            /\ LET transformed == TransformAll(crawl.items, clock')
               IN  crawl' = [crawl EXCEPT
                       !.pc = "returned",
                       !.stores = FilterRetailers(transformed),
                       !.validationFailures =
                           Len(crawl.items) - Len(transformed),
                       !.walmartCount =
                           Len(SelectSeq(transformed,
                                   LAMBDA st : IsWalmart(st.name))),
                       !.targetCount =
                           Len(SelectSeq(transformed,
                                   LAMBDA st : ~IsWalmart(st.name)
                                               /\ IsTarget(st.name)))]
    /\ UNCHANGED <<storesTable, nextId, calls, ws>>

\* A filter of the dataset that knows one retailer only.
FilterWalmartOnly(stores) ==
    SelectSeq(stores, LAMBDA store : ~IsWalmart(store.name))

\* fetchAndTransformDataset: the stores whose lower-cased name includes
\* neither "walmart" nor "target" are kept
FilterRetailersDataset(stores) ==
    SelectSeq(stores, LAMBDA store :
        ~IsWalmart(store.name) /\ ~IsTarget(store.name))

\* fetchAndTransformDataset(datasetId) for the dataset of an earlier run:
\* its items are listed again, transformed and filtered, or the error of
\* the listing is thrown again.
FetchAndTransformDataset(listFails) ==
    /\ UNCHANGED notCrawl
    /\ crawl.pc = "returned"
    /\ crawl.dataset.pc = "idle"
    /\ IF listFails
       THEN /\ crawl' = [crawl EXCEPT !.dataset = [pc |-> "threw"]]
            /\ UNCHANGED clock
       ELSE /\ clock' = clock + 1
            /\ LET transformed == TransformAll(crawl.items, clock')
               IN  crawl' = [crawl EXCEPT !.dataset =
                       [pc |-> "returned",
                        stores |-> FilterRetailersDataset(transformed),
                        validationFailures |->
                            Len(crawl.items) - Len(transformed),
                        totalProcessed |-> Len(crawl.items)]]
    /\ UNCHANGED <<storesTable, nextId, calls, ws>>

NextCrawl ==
    \/ \E runFails \in BOOLEAN : CrawlDataset(runFails)
    \/ \E listFails \in BOOLEAN : FetchAndTransformDataset(listFails)

(***************************************************************************)
(* Part 7: services/claudeAPICall.js (checkRateLimits) under the           *)
(* claudeAPICall invocations of overlapping jobs                           *)
(***************************************************************************)

\* Jobs started by POST /process that overlap: the handler starts
\* runAIProcessing whether or not a job is running.
NumCallers == 2
Callers == 1..NumCallers

IdleCaller == [pc |-> "idle", est |-> 0, wakeAt |-> 0]
NoAdmissions == [atNow |-> 0, inWindow |-> 0]

\* the variables of claudeAPICall.js that belong to one invocation
invocationVars ==
    <<pc, attempt, estimatedInputTokens, wakeAt, result, thrown, attemptsMade,
      requestsSent, retryDelays, lastError, caughtErrors, admittedSinceReset,
                   admittedTokens, lastCheck>>
notCallers ==
    <<invocationVars, aiVars, storeVars, scrapeVars, fetchVars, crawlVars,
      summaryVars>>

\* An invocation calls checkRateLimits, which runs to its setTimeout or to
\* its end; at its end the remote request is sent.
CallerChecks(c, est) ==
    /\ UNCHANGED notCallers
    /\ cc[c].pc = "idle"
    /\ now <= MaxNow
    /\ LET timeElapsed == now - lastResetTime
       IN  IF WindowElapsed(timeElapsed)
           THEN \* reset and return: the call is not counted
                /\ requestsThisMinute' = 0
                /\ tokensThisMinute' = 0
                /\ lastResetTime' = now
                /\ admissions' = [atNow |-> admissions.atNow,
                                  inWindow |-> admissions.atNow]
                /\ cc' = [cc EXCEPT ![c] = [pc |-> "request", est |-> est,
                                            wakeAt |-> 0]]
           ELSE IF WouldExceed(requestsThisMinute, tokensThisMinute, est)
           THEN \* await setTimeout(waitTime)
                /\ cc' = [cc EXCEPT ![c] =
                       [pc |-> "limiterWait", est |-> est,
                        wakeAt |-> now + (WINDOW_MS - timeElapsed)]]
                /\ UNCHANGED <<requestsThisMinute, tokensThisMinute,
                               lastResetTime, admissions>>
           ELSE \* "Update counters BEFORE the API call"
                /\ requestsThisMinute' = requestsThisMinute + 1
                /\ tokensThisMinute' = tokensThisMinute + est
                /\ admissions' = [atNow |-> admissions.atNow + 1,
                                  inWindow |-> admissions.inWindow + 1]
                /\ cc' = [cc EXCEPT ![c] = [pc |-> "request", est |-> est,
                                            wakeAt |-> 0]]
                /\ UNCHANGED lastResetTime
    /\ UNCHANGED now

\* The timer of an invocation in checkRateLimits fires, no later timer
\* before it: counters reset, the call is counted, the request is sent.
CallerWakes(c) ==
    /\ UNCHANGED notCallers
    /\ cc[c].pc = "limiterWait"
    /\ \A d \in Callers :
          cc[d].pc = "limiterWait" => cc[c].wakeAt <= cc[d].wakeAt
    /\ now' = IF now < cc[c].wakeAt THEN cc[c].wakeAt ELSE now
    /\ requestsThisMinute' = 0 + 1
    /\ tokensThisMinute' = 0 + cc[c].est
    /\ lastResetTime' = now'
    /\ admissions' =
           LET before == IF now' = now THEN admissions.atNow ELSE 0
           IN  [atNow |-> before + 1, inWindow |-> before + 1]
    /\ cc' = [cc EXCEPT ![c].pc = "request"]

\* The remote request of an invocation is over, and with it the invocation.
CallerDone(c) ==
    /\ UNCHANGED notCallers
    /\ cc[c].pc = "request"
    /\ cc' = [cc EXCEPT ![c] = IdleCaller]
    /\ UNCHANGED <<requestsThisMinute, tokensThisMinute, lastResetTime, now,
                   admissions>>

\* Time passes, up to the next timer.
CallersTick ==
    /\ UNCHANGED notCallers
    /\ now <= MaxNow
    /\ \A c \in Callers :
          cc[c].pc = "limiterWait" => now + TickMs <= cc[c].wakeAt
    /\ now' = now + TickMs
    /\ admissions' = [admissions EXCEPT !.atNow = 0]
    /\ UNCHANGED <<requestsThisMinute, tokensThisMinute, lastResetTime, cc>>

NextCallers ==
    \/ \E c \in Callers, est \in Estimates : CallerChecks(c, est)
    \/ \E c \in Callers : CallerWakes(c)
    \/ \E c \in Callers : CallerDone(c)
    \/ CallersTick

(***************************************************************************)
(* Part 8: services/supabaseServicesAI.js (writeAISummariesToDb) as a      *)
(* function of the table and of the storeSummaries given                   *)
(***************************************************************************)

\* Rows of the table, and place_ids that storeSummaries can name: the
\* largest has no row.
MaxSummaryRows == 2
MaxSummaryPlaceId == 3
\* Entries of storeSummaries.
MaxSummaries == 3

\* A row of the stores table: its columns other than the enrichment fields
\* are NOT NULL or given at the insert.
SummaryRow(p) ==
    [id |-> 10 + p, place_id |-> p, name |-> "Scooter Shop",
     scraped_at |-> 0, ai_summary |-> Null, ai_summary_updated_at |-> Null]
SummaryTables ==
    {{SummaryRow(p) : p \in ps} : ps \in SUBSET (1..MaxSummaryRows)}
SummaryInputs ==
    SeqsUpTo([place_id : 1..MaxSummaryPlaceId, ai_summary : {GeneratedSummary}],
             MaxSummaries)

IdleSummaries == [pc |-> "idle"]

\* An update that adds the row when no row has the place_id.
UpdateOrInsertSummary(table, store, t) ==
    IF store.place_id \in PlaceIdsIn(table)
    THEN {IF r.place_id = store.place_id
          THEN [r EXCEPT !.ai_summary = store.ai_summary,
                         !.ai_summary_updated_at = t]
          ELSE r : r \in table}
    ELSE table \cup
             {[id |-> 0, place_id |-> store.place_id, name |-> "",
               scraped_at |-> t, ai_summary |-> store.ai_summary,
               ai_summary_updated_at |-> t]}

\* .update({ai_summary, ai_summary_updated_at}).eq("place_id", place_id)
UpdateSummaryRow(table, store, t) ==
    {IF r.place_id = store.place_id
     THEN [r EXCEPT !.ai_summary = store.ai_summary,
                    !.ai_summary_updated_at = t]
     ELSE r : r \in table}

\* The batch of the call that is being written.
SummaryBatch(c) == Slice(c.storeSummaries, c.i + 1, c.i + AI_WRITE_BATCH_SIZE)

\* The loop over the batches goes on, or the function returns.
AfterSummaryBatch(c) ==
    IF c.i + AI_WRITE_BATCH_SIZE < Len(c.storeSummaries)
    THEN [c EXCEPT !.i = @ + AI_WRITE_BATCH_SIZE, !.retryCount = 0,
                   !.pos = 1]
    ELSE [c EXCEPT !.pc = "returned"]

\* writeAISummariesToDb: the update of one store of the batch, which gives
\* an error or not; the error of a store is the retry of its batch, or at
\* the third the failure of its batch.
UpdateOneSummary(updateFails) ==
    /\ UNCHANGED notSummaries
    /\ sm.pc = "update"
    /\ LET batch == SummaryBatch(sm)
           store == batch[sm.pos]
       IN  IF updateFails
           THEN IF sm.retryCount + 1 = AI_WRITE_RETRIES
                THEN sm' = AfterSummaryBatch([sm EXCEPT
                         !.failed = @ \o [k \in 1..Len(batch) |->
                             [place_id |-> batch[k].place_id,
                              error |-> "update failed"]]])
                ELSE sm' = [sm EXCEPT !.retryCount = @ + 1, !.pos = 1]
           ELSE LET written == [sm EXCEPT
                        !.time = @ + 1,
                        !.table = UpdateSummaryRow(@, store, sm.time + 1),
                        !.successful = Append(@, store)]
                IN  IF sm.pos = Len(batch)
                    THEN sm' = AfterSummaryBatch(written)
                    ELSE sm' = [written EXCEPT !.pos = @ + 1]

\* The upsert of the earlier writeAISummariesToDb, of the records
\* {place_id, ai_summary, ai_summary_updated_at} of a batch: name and
\* search_string are NOT NULL and without default, so that a record whose
\* place_id has no row cannot be inserted, and a statement cannot affect a
\* row twice.
UpsertSummaryBatch(upsertFails) ==
    /\ UNCHANGED notSummaries
    /\ sm.pc = "upsert"
    /\ LET batch == SummaryBatch(sm)
       IN  /\ (\/ HasDuplicates(batch)
               \/ ~(PlaceIdsOf(batch) \subseteq PlaceIdsIn(sm.table)))
                  => upsertFails
           /\ IF upsertFails
              THEN sm' = AfterSummaryBatch([sm EXCEPT !.failed = @ \o batch])
              ELSE sm' = AfterSummaryBatch([sm EXCEPT
                       !.time = @ + 1,
                       !.table =
                           {IF r.place_id \in PlaceIdsOf(batch)
                            THEN [r EXCEPT
                                !.ai_summary = GeneratedSummary,
                                !.ai_summary_updated_at = sm.time + 1]
                            ELSE r : r \in @},
                       !.successful = @ \o batch])

NextSummaries ==
    \/ \E updateFails \in BOOLEAN : UpdateOneSummary(updateFails)
    \/ \E upsertFails \in BOOLEAN : UpsertSummaryBatch(upsertFails)

(***************************************************************************)
(* Specifications                                                          *)
(***************************************************************************)

vars == <<claudeVars, aiVars, storeVars, scrapeVars, fetchVars, crawlVars,
          callerVars, summaryVars>>

\* The module state of claudeAPICall.js when it is loaded; no job running.
InitClaude ==
    /\ requestsThisMinute = 0
    /\ tokensThisMinute = 0
    /\ lastResetTime = 0
    /\ now = 0
    /\ pc = "idle"
    /\ attempt = 0
    /\ estimatedInputTokens = 0
    /\ wakeAt = 0
    /\ result = NoValue
    /\ thrown = NoValue
    /\ attemptsMade = 0
    /\ requestsSent = 0
    /\ retryDelays = <<>>
    /\ lastError = None
    /\ caughtErrors = <<>>
    /\ admittedSinceReset = 0
    /\ admittedTokens = 0
    /\ lastCheck = NoCheck
    \* the other parts are not running
    /\ aiTable = <<>>
    /\ aiPc = "idle"
    /\ processingDetails = NewProcessingDetails
    /\ page = NoPage
    /\ sw = NoWrite
    /\ claudeCalls = {}
    /\ successfulIds = <<>>
    /\ aiHistory = NoHistory
    /\ storesTable = {}
    /\ nextId = 1
    /\ clock = 0
    /\ calls = 0
    /\ ws = [w \in Writers |-> IdleWrite]
    /\ scrape = IdleScrape
    /\ sc = [st \in Writers |-> IdleState]
    /\ apifyRuns = [st \in Writers |-> <<>>]
    /\ fs = IdleFetch
    /\ crawl = IdleCrawl
    /\ cc = [c \in Callers |-> IdleCaller]
    /\ admissions = NoAdmissions
    /\ sm = IdleSummaries

SpecClaude == InitClaude /\ [][NextClaude]_vars

\* The invocation with a running event loop: the synchronous part of
\* checkRateLimits runs when it is called, and its timer fires.
SpecClaudeLive ==
    InitClaude /\ [][NextClaude]_vars
        /\ WF_<<pc, attemptsMade>>(CheckRateLimits)
        /\ WF_<<pc, now>>(LimiterWake)

\* A stores table of unsummarized rows with review counts on either side
\* of the gate; no job running.
InitAI ==
    /\ aiTable \in [AIPlaceIds -> [reviews_count : ReviewCounts,
                                   ai_summary : {Null}]]
    /\ aiPc = "idle"
    /\ processingDetails = NewProcessingDetails
    /\ page = NoPage
    /\ sw = NoWrite
    /\ claudeCalls = {}
    /\ successfulIds = <<>>
    /\ aiHistory = NoHistory
    \* the other parts are not running
    /\ requestsThisMinute = 0
    /\ tokensThisMinute = 0
    /\ lastResetTime = 0
    /\ now = 0
    /\ pc = "idle"
    /\ attempt = 0
    /\ estimatedInputTokens = 0
    /\ wakeAt = 0
    /\ result = NoValue
    /\ thrown = NoValue
    /\ attemptsMade = 0
    /\ requestsSent = 0
    /\ retryDelays = <<>>
    /\ lastError = None
    /\ caughtErrors = <<>>
    /\ admittedSinceReset = 0
    /\ admittedTokens = 0
    /\ lastCheck = NoCheck
    /\ storesTable = {}
    /\ nextId = 1
    /\ clock = 0
    /\ calls = 0
    /\ ws = [w \in Writers |-> IdleWrite]
    /\ scrape = IdleScrape
    /\ sc = [st \in Writers |-> IdleState]
    /\ apifyRuns = [st \in Writers |-> <<>>]
    /\ fs = IdleFetch
    /\ crawl = IdleCrawl
    /\ cc = [c \in Callers |-> IdleCaller]
    /\ admissions = NoAdmissions
    /\ sm = IdleSummaries

SpecAI == InitAI /\ [][NextAI]_vars

\* The run with providers whose calls always return: every awaited call of
\* the job settles and the job goes on from it.
SpecAILive == InitAI /\ [][NextAI]_vars /\ WF_vars(NextAI)

\* An empty stores table; no ingestion running.
InitStores ==
    /\ storesTable = {}
    /\ nextId = 1
    /\ clock = 0
    /\ calls = 0
    /\ ws = [w \in Writers |-> IdleWrite]
    \* the other parts are not running
    /\ requestsThisMinute = 0
    /\ tokensThisMinute = 0
    /\ lastResetTime = 0
    /\ now = 0
    /\ pc = "idle"
    /\ attempt = 0
    /\ estimatedInputTokens = 0
    /\ wakeAt = 0
    /\ result = NoValue
    /\ thrown = NoValue
    /\ attemptsMade = 0
    /\ requestsSent = 0
    /\ retryDelays = <<>>
    /\ lastError = None
    /\ caughtErrors = <<>>
    /\ admittedSinceReset = 0
    /\ admittedTokens = 0
    /\ lastCheck = NoCheck
    /\ aiTable = <<>>
    /\ aiPc = "idle"
    /\ processingDetails = NewProcessingDetails
    /\ page = NoPage
    /\ sw = NoWrite
    /\ claudeCalls = {}
    /\ successfulIds = <<>>
    /\ aiHistory = NoHistory
    /\ scrape = IdleScrape
    /\ sc = [st \in Writers |-> IdleState]
    /\ apifyRuns = [st \in Writers |-> <<>>]
    /\ fs = IdleFetch
    /\ crawl = IdleCrawl
    /\ cc = [c \in Callers |-> IdleCaller]
    /\ admissions = NoAdmissions
    /\ sm = IdleSummaries

SpecStores == InitStores /\ [][NextStores]_vars

\* Ingestions with the AI job writing summaries between their steps.
NextReingest ==
    \/ NextStores
    \/ \E p \in 1..MaxPlaceId : SummaryWritten(p)

SpecReingest == InitStores /\ [][NextReingest]_vars

\* An empty stores table; no scrape running.
InitScrape ==
    /\ storesTable = {}
    /\ nextId = 1
    /\ clock = 0
    /\ calls = 0
    /\ ws = [w \in Writers |-> IdleWrite]
    \* the other parts are not running
    /\ requestsThisMinute = 0
    /\ tokensThisMinute = 0
    /\ lastResetTime = 0
    /\ now = 0
    /\ pc = "idle"
    /\ attempt = 0
    /\ estimatedInputTokens = 0
    /\ wakeAt = 0
    /\ result = NoValue
    /\ thrown = NoValue
    /\ attemptsMade = 0
    /\ requestsSent = 0
    /\ retryDelays = <<>>
    /\ lastError = None
    /\ caughtErrors = <<>>
    /\ admittedSinceReset = 0
    /\ admittedTokens = 0
    /\ lastCheck = NoCheck
    /\ aiTable = <<>>
    /\ aiPc = "idle"
    /\ processingDetails = NewProcessingDetails
    /\ page = NoPage
    /\ sw = NoWrite
    /\ claudeCalls = {}
    /\ successfulIds = <<>>
    /\ aiHistory = NoHistory
    /\ scrape = IdleScrape
    /\ sc = [st \in Writers |-> IdleState]
    /\ apifyRuns = [st \in Writers |-> <<>>]
    /\ fs = IdleFetch
    /\ crawl = IdleCrawl
    /\ cc = [c \in Callers |-> IdleCaller]
    /\ admissions = NoAdmissions
    /\ sm = IdleSummaries

SpecScrape == InitScrape /\ [][NextScrape]_vars

\* A call of fetchStoresDb with any of the options; nothing else running.
InitFetch ==
    /\ storesTable = {}
    /\ nextId = 1
    /\ clock = 0
    /\ calls = 0
    /\ ws = [w \in Writers |-> IdleWrite]
    \* the other parts are not running
    /\ requestsThisMinute = 0
    /\ tokensThisMinute = 0
    /\ lastResetTime = 0
    /\ now = 0
    /\ pc = "idle"
    /\ attempt = 0
    /\ estimatedInputTokens = 0
    /\ wakeAt = 0
    /\ result = NoValue
    /\ thrown = NoValue
    /\ attemptsMade = 0
    /\ requestsSent = 0
    /\ retryDelays = <<>>
    /\ lastError = None
    /\ caughtErrors = <<>>
    /\ admittedSinceReset = 0
    /\ admittedTokens = 0
    /\ lastCheck = NoCheck
    /\ aiTable = <<>>
    /\ aiPc = "idle"
    /\ processingDetails = NewProcessingDetails
    /\ page = NoPage
    /\ sw = NoWrite
    /\ claudeCalls = {}
    /\ successfulIds = <<>>
    /\ aiHistory = NoHistory
    /\ scrape = IdleScrape
    /\ sc = [st \in Writers |-> IdleState]
    /\ apifyRuns = [st \in Writers |-> <<>>]
    /\ fs \in {[IdleFetch EXCEPT !.pc = "called", !.options = o] :
                  o \in FetchOptions}
    /\ crawl = IdleCrawl
    /\ cc = [c \in Callers |-> IdleCaller]
    /\ admissions = NoAdmissions
    /\ sm = IdleSummaries

SpecFetch == InitFetch /\ [][NextFetch]_vars

\* A call of crawlerGooglePlaces with any dataset; nothing else running.
InitCrawl ==
    /\ storesTable = {}
    /\ nextId = 1
    /\ clock = 0
    /\ calls = 0
    /\ ws = [w \in Writers |-> IdleWrite]
    \* the other parts are not running
    /\ requestsThisMinute = 0
    /\ tokensThisMinute = 0
    /\ lastResetTime = 0
    /\ now = 0
    /\ pc = "idle"
    /\ attempt = 0
    /\ estimatedInputTokens = 0
    /\ wakeAt = 0
    /\ result = NoValue
    /\ thrown = NoValue
    /\ attemptsMade = 0
    /\ requestsSent = 0
    /\ retryDelays = <<>>
    /\ lastError = None
    /\ caughtErrors = <<>>
    /\ admittedSinceReset = 0
    /\ admittedTokens = 0
    /\ lastCheck = NoCheck
    /\ aiTable = <<>>
    /\ aiPc = "idle"
    /\ processingDetails = NewProcessingDetails
    /\ page = NoPage
    /\ sw = NoWrite
    /\ claudeCalls = {}
    /\ successfulIds = <<>>
    /\ aiHistory = NoHistory
    /\ scrape = IdleScrape
    /\ sc = [st \in Writers |-> IdleState]
    /\ apifyRuns = [st \in Writers |-> <<>>]
    /\ fs = IdleFetch
    /\ crawl \in {[IdleCrawl EXCEPT !.pc = "called", !.items = items] :
                     items \in SeqsUpTo(RawRecords, MaxRawItems)}
    /\ cc = [c \in Callers |-> IdleCaller]
    /\ admissions = NoAdmissions
    /\ sm = IdleSummaries

SpecCrawl == InitCrawl /\ [][NextCrawl]_vars

\* The module state of claudeAPICall.js when it is loaded; no invocation.
InitCallers ==
    /\ requestsThisMinute = 0
    /\ tokensThisMinute = 0
    /\ lastResetTime = 0
    /\ now = 0
    /\ pc = "idle"
    /\ attempt = 0
    /\ estimatedInputTokens = 0
    /\ wakeAt = 0
    /\ result = NoValue
    /\ thrown = NoValue
    /\ attemptsMade = 0
    /\ requestsSent = 0
    /\ retryDelays = <<>>
    /\ lastError = None
    /\ caughtErrors = <<>>
    /\ admittedSinceReset = 0
    /\ admittedTokens = 0
    /\ lastCheck = NoCheck
    \* the other parts are not running
    /\ aiTable = <<>>
    /\ aiPc = "idle"
    /\ processingDetails = NewProcessingDetails
    /\ page = NoPage
    /\ sw = NoWrite
    /\ claudeCalls = {}
    /\ successfulIds = <<>>
    /\ aiHistory = NoHistory
    /\ storesTable = {}
    /\ nextId = 1
    /\ clock = 0
    /\ calls = 0
    /\ ws = [w \in Writers |-> IdleWrite]
    /\ scrape = IdleScrape
    /\ sc = [st \in Writers |-> IdleState]
    /\ apifyRuns = [st \in Writers |-> <<>>]
    /\ fs = IdleFetch
    /\ crawl = IdleCrawl
    /\ cc = [c \in Callers |-> IdleCaller]
    /\ admissions = NoAdmissions
    /\ sm = IdleSummaries

SpecCallers == InitCallers /\ [][NextCallers]_vars

\* writeAISummariesToDb, or the earlier one, is called with storeSummaries
\* for a table; the function has run up to its first await.
InitSummaries ==
    /\ requestsThisMinute = 0
    /\ tokensThisMinute = 0
    /\ lastResetTime = 0
    /\ now = 0
    /\ pc = "idle"
    /\ attempt = 0
    /\ estimatedInputTokens = 0
    /\ wakeAt = 0
    /\ result = NoValue
    /\ thrown = NoValue
    /\ attemptsMade = 0
    /\ requestsSent = 0
    /\ retryDelays = <<>>
    /\ lastError = None
    /\ caughtErrors = <<>>
    /\ admittedSinceReset = 0
    /\ admittedTokens = 0
    /\ lastCheck = NoCheck
    \* the other parts are not running
    /\ aiTable = <<>>
    /\ aiPc = "idle"
    /\ processingDetails = NewProcessingDetails
    /\ page = NoPage
    /\ sw = NoWrite
    /\ claudeCalls = {}
    /\ successfulIds = <<>>
    /\ aiHistory = NoHistory
    /\ storesTable = {}
    /\ nextId = 1
    /\ clock = 0
    /\ calls = 0
    /\ ws = [w \in Writers |-> IdleWrite]
    /\ scrape = IdleScrape
    /\ sc = [st \in Writers |-> IdleState]
    /\ apifyRuns = [st \in Writers |-> <<>>]
    /\ fs = IdleFetch
    /\ crawl = IdleCrawl
    /\ cc = [c \in Callers |-> IdleCaller]
    /\ admissions = NoAdmissions
    /\ sm \in {[pc |-> IF legacy THEN "upsert" ELSE "update",
                 table |-> table, storeSummaries |-> input,
                 i |-> 0, pos |-> 1, retryCount |-> 0, time |-> 0,
                 successful |-> <<>>, failed |-> <<>>,
                 \* history: the table when the call began
                 tableAtCall |-> table] :
                     legacy \in BOOLEAN, table \in SummaryTables,
                     input \in SummaryInputs}

SpecSummaries == InitSummaries /\ [][NextSummaries]_vars

(***************************************************************************)
(* Claims about claudeAPICall.js, checked under SpecClaude                 *)
(***************************************************************************)

\* C2: with request ceiling R and token usage below its ceiling, the first
\* R calls of checkRateLimits inside one window do not suspend, the
\* (R+1)th call inside the window suspends until the window ends, and a
\* reset leaves the counters at zero (a call admitted by the reset adds only
\* its own cost).  The calls inside the window are counted by
\* admittedSinceReset, independently of requestsThisMinute.
C2_RateLimiterBoundary ==
    /\ (lastCheck.made /\ lastCheck.inWindow /\ lastCheck.tokensFit) =>
           /\ lastCheck.priorAdmitted < REQUESTS_PER_MINUTE
                  => ~lastCheck.suspended
           /\ lastCheck.priorAdmitted >= REQUESTS_PER_MINUTE
                  => /\ lastCheck.suspended
                     /\ pc # "limiterWait"
                            => lastCheck.resumedAt = lastCheck.windowEnd
    /\ (lastCheck.made /\ lastCheck.reset /\ pc = "request") =>
           IF lastCheck.suspended
           THEN requestsThisMinute = 1 /\ tokensThisMinute = lastCheck.est
           ELSE requestsThisMinute = 0 /\ tokensThisMinute = 0

\* C3: a claudeAPICall whose remote operation fails on every attempt makes
\* exactly MAX_RETRIES attempts, sleeps RETRY_DELAY between consecutive
\* attempts and not after the last one, and throws an error that names the
\* attempt count and carries the message of the last underlying error.
C3_RetryExhaustion ==
    pc = "threw" =>
        /\ attemptsMade = MAX_RETRIES
        /\ requestsSent = MAX_RETRIES
        /\ retryDelays = [i \in 1..(MAX_RETRIES - 1) |-> RETRY_DELAY]
        /\ thrown = [attempts |-> MAX_RETRIES, message |-> lastError]
        /\ lastError \in RemoteErrors \cup {EmptyResponseMessage}

\* C3 witness: an invocation has thrown after its third failed attempt.
C3_Witness ==
    /\ pc = "threw"
    /\ attemptsMade = MAX_RETRIES
    /\ Len(retryDelays) = MAX_RETRIES - 1

(***************************************************************************)
(* Claims about runAIProcessing, checked under SpecAI                      *)
(***************************************************************************)

\* C1: when a run of runAIProcessing completes, every fetched store is
\* counted in exactly one of succeeded (processedStores), failedStores and
\* skippedStores: the three sizes sum to totalStores and the three are
\* pairwise disjoint by place_id.
C1_LedgerPartition ==
    aiPc = "done" =>
        /\ processingDetails.processedStores
             + Len(processingDetails.failedStores)
             + Len(processingDetails.skippedStores)
           = processingDetails.totalStores
        /\ SeqRange(successfulIds)
             \cap PlaceIdsOf(processingDetails.failedStores) = {}
        /\ SeqRange(successfulIds)
             \cap PlaceIdsOf(processingDetails.skippedStores) = {}
        /\ PlaceIdsOf(processingDetails.failedStores)
             \cap PlaceIdsOf(processingDetails.skippedStores) = {}

\* C4: a fetched store whose reviews_count is below 10 is classified
\* skipped, with a reason citing '<count>/10', and no summarization call is
\* made for it; a store whose reviews_count is 10 or more is not skipped and
\* a summarization call is attempted for it.
C4_SkipGate ==
    \A p \in DOMAIN aiTable :
        /\ p \in claudeCalls => aiTable[p].reviews_count >= MIN_REVIEWS
        /\ \A k \in 1..Len(processingDetails.skippedStores) :
              processingDetails.skippedStores[k].place_id = p =>
                  /\ aiTable[p].reviews_count < MIN_REVIEWS
                  /\ processingDetails.skippedStores[k].reason =
                         [count |-> [value |-> aiTable[p].reviews_count],
                          required |-> MIN_REVIEWS]
        /\ (aiPc = "done" /\ aiTable[p].ai_summary # Null) =>
              IF aiTable[p].reviews_count < MIN_REVIEWS
              THEN p \in PlaceIdsOf(processingDetails.skippedStores)
              ELSE p \in claudeCalls

(***************************************************************************)
(* Claims about writeStores, checked under SpecStores                      *)
(***************************************************************************)

\* The call of writeStores of the ingestion path.
W1 == ws[1]

\* The number of chunks of a list of n records.
NumChunks(n) == (n + STORE_BATCH_SIZE - 1) \div STORE_BATCH_SIZE

\* Chunk k of a list.
Chunk(list, k) ==
    Slice(list, (k - 1) * STORE_BATCH_SIZE + 1, k * STORE_BATCH_SIZE)

\* The members of the first n chunks whose outcome in the log is ok.
RECURSIVE ChunksWith(_, _, _, _)
ChunksWith(list, log, ok, n) ==
    IF n = 0 THEN <<>>
    ELSE ChunksWith(list, log, ok, n - 1)
           \o (IF log[n].ok = ok THEN Chunk(list, n) ELSE <<>>)

\* The number of entries of a list with a place_id.
CountOf(list, p) == Cardinality({k \in 1..Len(list) : list[k].place_id = p})

\* C5: a chunk whose upsert fails on all 3 attempts puts exactly its own
\* members in failed and does not stop later chunks: when writeStores
\* returns, every chunk has been tried, failed holds the members of the
\* chunks that failed 3 times and successful the members of every other.
C5_ChunkFaultIsolation ==
    W1.pc = "returned" =>
        /\ Len(W1.chunkLog) = NumChunks(Len(W1.validStores))
        /\ \A k \in 1..Len(W1.chunkLog) :
              ~W1.chunkLog[k].ok => W1.chunkLog[k].attempts = STORE_MAX_RETRIES
        /\ W1.results.failed =
              ChunksWith(W1.validStores, W1.chunkLog, FALSE, Len(W1.chunkLog))
        /\ W1.results.successful =
              ChunksWith(W1.validStores, W1.chunkLog, TRUE, Len(W1.chunkLog))

\* C5 witness: a call has returned whose first chunk failed 3 times and
\* whose second chunk was written.
C5_Witness ==
    /\ W1.pc = "returned"
    /\ Len(W1.chunkLog) = 2
    /\ ~W1.chunkLog[1].ok
    /\ W1.chunkLog[2].ok
    /\ Len(W1.results.failed) = STORE_BATCH_SIZE
    /\ Len(W1.results.successful) > 0

\* C6: when writeStores returns, successful and failed together hold each
\* input record that carries a place_id exactly once, and no record without
\* a place_id.
C6_ValidInputsAccounted ==
    W1.pc = "returned" =>
        /\ Len(W1.results.successful) + Len(W1.results.failed) =
              Cardinality({k \in 1..Len(W1.stores) :
                              W1.stores[k].place_id # NoPlaceId})
        /\ \A p \in RawPlaceIds :
              CountOf(W1.results.successful, p) + CountOf(W1.results.failed, p)
                = IF p = NoPlaceId THEN 0 ELSE CountOf(W1.stores, p)

\* C6 witness: a call has returned that was given a record without a
\* place_id and that retried a chunk before writing it.
C6_Witness ==
    /\ W1.pc = "returned"
    /\ CountOf(W1.stores, NoPlaceId) > 0
    /\ \E k \in 1..Len(W1.chunkLog) :
          W1.chunkLog[k].ok /\ W1.chunkLog[k].attempts > 1
    /\ Len(W1.results.successful) > 0

\* C7: when writeStores returns, every record of successful is in exactly
\* one of newStores and updatedStores, and it is in updatedStores exactly
\* when its place_id was in the table at the lookup before the first write.
C7_NewOrUpdated ==
    W1.pc = "returned" =>
        /\ Len(W1.results.newStores) + Len(W1.results.updatedStores)
             = Len(W1.results.successful)
        /\ W1.results.updatedStores =
              SelectSeq(W1.results.successful,
                        LAMBDA st : st.place_id \in W1.presentAtCall)
        /\ W1.results.newStores =
              SelectSeq(W1.results.successful,
                        LAMBDA st : st.place_id \notin W1.presentAtCall)

\* C7 witness: a call has returned that looked up two chunks and wrote a
\* record that was in the table and a record that was not.
C7_Witness ==
    /\ W1.pc = "returned"
    /\ Len(W1.placeIds) > STORE_BATCH_SIZE
    /\ Len(W1.results.updatedStores) > 0
    /\ Len(W1.results.newStores) > 0

\* The chunk that a step of writeStores writes to the table.
WrittenBatch ==
    IF W1.pc = "upsert" /\ storesTable' # storesTable
    THEN Slice(W1.validStores, W1.i + 1, W1.i + STORE_BATCH_SIZE)
    ELSE <<>>

\* C8: writing a record whose place_id has a row keeps one row for the
\* place_id, sets the provided fields and last_updated, and leaves the
\* row's surrogate id and scraped_at as they were.
C8_UpdatePreservesIdentity ==
    [][\A k \in 1..Len(WrittenBatch) :
          LET rec == WrittenBatch[k]
              p == rec.place_id
          IN  p \in PlaceIdsIn(storesTable) =>
                 /\ Cardinality(RowsOf(storesTable', p)) = 1
                 /\ \A old \in RowsOf(storesTable, p) :
                       \A new \in RowsOf(storesTable', p) :
                          /\ new.name = rec.name
                          /\ new.last_updated = rec.last_updated
                          /\ new.id = old.id
                          /\ new.scraped_at = old.scraped_at]_vars

(***************************************************************************)
(* Claims about processSingleState and runScrape, checked under SpecScrape *)
(***************************************************************************)

\* The chunk that writer w has written to the table in this step.
WrittenBy(w) ==
    IF /\ ws[w].pc = "upsert"
       /\ ws'[w] # ws[w]
       /\ Len(ws'[w].chunkLog) > Len(ws[w].chunkLog)
       /\ ws'[w].chunkLog[Len(ws'[w].chunkLog)].ok
    THEN Slice(ws[w].validStores, ws[w].i + 1, ws[w].i + STORE_BATCH_SIZE)
    ELSE <<>>

\* C9: when the states of one batch write records with the same place_id,
\* the table keeps exactly one row for the place_id, and after each write
\* the row has every field of the record just written: the row is the later
\* record as a whole.
C9_LastWriteWins ==
    [][/\ \A p \in PlaceIdsIn(storesTable') :
             Cardinality(RowsOf(storesTable', p)) = 1
       /\ \A w \in Writers :
             \A k \in 1..Len(WrittenBy(w)) :
                LET rec == WrittenBy(w)[k]
                IN  \A row \in RowsOf(storesTable', rec.place_id) :
                       \A f \in DOMAIN rec : row[f] = rec[f]]_vars

\* C9 witness: two states of one batch have each written a record with the
\* same place_id, with different names, and the table has one row for it.
C9_Witness ==
    \E v, w \in Writers :
        /\ v # w
        /\ ws[v].pc = "returned"
        /\ ws[w].pc = "returned"
        /\ \E j \in 1..Len(ws[v].results.successful) :
              \E k \in 1..Len(ws[w].results.successful) :
                 /\ ws[v].results.successful[j].place_id
                      = ws[w].results.successful[k].place_id
                 /\ ws[v].results.successful[j].name
                      # ws[w].results.successful[k].name
                 /\ Cardinality(RowsOf(storesTable,
                        ws[v].results.successful[j].place_id)) = 1

\* C10: when processSingleState has returned for a state, whether its scrape
\* succeeded or failed, writeApifyRunDetails was called once and one
\* run-metadata row is persisted for the state.
C10_OneRunRecord ==
    \A st \in Writers :
        sc[st].pc = "returned" =>
            /\ sc[st].runDetailsCalls = 1
            /\ Len(apifyRuns[st]) = 1

\* The insert of the run-metadata record of a state has failed.
RunDetailsFailed(st) ==
    /\ ~sc[st].result.success
    /\ sc[st].result.error = "Failed to store Apify run details"

\* C11: when the scrape of a state succeeds and writeStores throws (and the
\* run-metadata record is persisted), processSingleState returns success =
\* true with the number of scraped stores, and the run-metadata record of
\* the state carries the write error in store_processing_results.
C11_WriteErrorRecorded ==
    \A st \in Writers :
        (/\ sc[st].pc = "returned"
         /\ sc[st].storeError # None
         /\ ~RunDetailsFailed(st)) =>
            /\ sc[st].result.success
            /\ sc[st].result.storesProcessed = sc[st].storesLength
            /\ apifyRuns[st] =
                  <<[run_id |-> st,
                     store_processing_results |->
                         [error |-> sc[st].storeError]]>>

\* C11 witness: a state has returned success = true for one scraped store
\* whose write threw after the lookup of existing rows failed 3 times.
C11_Witness ==
    \E st \in Writers :
        /\ sc[st].pc = "returned"
        /\ sc[st].storeError = "Failed to fetch existing stores chunk"
        /\ sc[st].result.success
        /\ sc[st].result.storesProcessed = 1
        /\ Len(apifyRuns[st]) = 1

\* C12: a failure in one state never cancels or fails a sibling: when a
\* batch is complete, every state of it has run to its own outcome and the
\* outcome of each is collected, as the result of that state.
C12_SiblingsIsolated ==
    /\ scrape.pc = "delay" =>
          Len(scrape.results) = scrape.i + Len(StateBatch(scrape.i))
    /\ scrape.pc = "done" => Len(scrape.results) = Len(States)
    /\ \A k \in 1..Len(scrape.results) :
          /\ sc[k].pc = "returned"
          /\ scrape.results[k] =
                [status |-> "fulfilled", value |-> sc[k].result]
          /\ scrape.results[k].value.state = States[k]
          /\ ~scrape.results[k].value.success =>
                \/ sc[k].runDetailsCalls = 0
                \/ RunDetailsFailed(k)

\* C12 witness: a batch is complete in which the scrape of one state threw
\* and its sibling returned success with its run-metadata record persisted.
C12_Witness ==
    /\ scrape.pc \in {"delay", "done"}
    /\ \E j, k \in 1..Len(scrape.results) :
          /\ j # k
          /\ j \in SeqRange(StateBatch(0))
          /\ k \in SeqRange(StateBatch(0))
          /\ ~scrape.results[j].value.success
          /\ sc[j].runDetailsCalls = 0
          /\ scrape.results[k].value.success
          /\ Len(apifyRuns[k]) = 1

\* The number of entries of a list that are equal to x.
Occurrences(list, x) == Cardinality({k \in 1..Len(list) : list[k] = x})

\* C13: the summary that runScrape returns lists every configured state
\* exactly once, in successful if the processSingleState call of that state
\* returned success and in failed otherwise.
C13_SummaryPartition ==
    scrape.pc = "done" =>
        /\ Len(scrape.summary.successful) + Len(scrape.summary.failed)
             = Len(States)
        /\ \A k \in 1..Len(States) :
              /\ Occurrences(scrape.summary.successful, States[k])
                   = (IF sc[k].result.success THEN 1 ELSE 0)
              /\ Occurrences(scrape.summary.failed, States[k])
                   = (IF sc[k].result.success THEN 0 ELSE 1)

\* C13 witness: runScrape has returned a summary with a failed state before
\* a successful one and a state of a later batch.
C13_Witness ==
    /\ scrape.pc = "done"
    /\ ~sc[1].result.success
    /\ sc[2].result.success
    /\ Len(scrape.summary.successful) > 0
    /\ Len(scrape.summary.failed) > 0
    /\ Len(scrape.results) > SCRAPE_BATCH_SIZE

(***************************************************************************)
(* Further claims about runAIProcessing, checked under SpecAI              *)
(***************************************************************************)

\* writeAISummariesToDb has returned its lists for the summaries of the
\* current page.
SummariesWritten ==
    /\ aiPc \in {"fetch", "done"}
    /\ Len(page.processedStores) > 0

\* C14: in writeAISummariesToDb the batch is the unit of failure: when it
\* returns, for every batch either every member is exactly once in
\* successful and not in failed, or every member is exactly once in failed
\* and not in successful.
C14_BatchUnitOfFailure ==
    SummariesWritten =>
        \A b \in 0..((Len(page.processedStores) - 1) \div AI_WRITE_BATCH_SIZE) :
            LET batch == Slice(page.processedStores,
                               b * AI_WRITE_BATCH_SIZE + 1,
                               (b + 1) * AI_WRITE_BATCH_SIZE)
            IN  \/ \A k \in 1..Len(batch) :
                      /\ CountOf(sw.successful, batch[k].place_id) = 1
                      /\ CountOf(sw.failed, batch[k].place_id) = 0
                \/ \A k \in 1..Len(batch) :
                      /\ CountOf(sw.successful, batch[k].place_id) = 0
                      /\ CountOf(sw.failed, batch[k].place_id) = 1

(***************************************************************************)
(* Claims about fetchStoresDb, checked under SpecFetch                     *)
(***************************************************************************)

\* The options that are to be rejected: an unknown mode, single mode
\* without a place_id, state mode without a non-empty list of states, a
\* limit that is not positive or not an integer.
MustReject(o) ==
    \/ o.mode \notin {"unprocessed", "single", "all", "state"}
    \/ o.mode = "single" /\ o.place_id \in {Null, [str |-> ""]}
    \/ o.mode = "state" /\ (o.states = Null \/ o.states = [list |-> <<>>])
    \/ o.limit # Null /\ (o.limit.halves <= 0 \/ o.limit.halves % 2 # 0)

\* C15: fetchStoresDb rejects the options that are to be rejected, before
\* any store query is issued and without a second try.
C15_OptionsRejected ==
    (fs.pc # "called" /\ MustReject(fs.options)) =>
        /\ fs.pc = "threw"
        /\ fs.queries = 0
        /\ fs.calls = 1

(***************************************************************************)
(* Claims about crawlerGooglePlaces, checked under SpecCrawl               *)
(***************************************************************************)

\* A raw record that is to fail transformation: no external id, no name,
\* or a location block without latitude or longitude.
BadRecord(item) ==
    \/ item.placeId = NoPlaceId
    \/ item.title = ""
    \/ item.location = "incomplete"

\* C16: crawlerGooglePlaces does not abort because of a bad record: when
\* it returns, each record that fails transformation has added one to
\* validationFailures, the other records are processed in their order, and
\* the raw records are as many as the stores returned, the validation
\* failures and the records removed by the retailer filter together.
C16_BadRecordsDropped ==
    crawl.pc = "returned" =>
        /\ crawl.validationFailures =
              Len(SelectSeq(crawl.items, BadRecord))
        /\ Len(crawl.items) =
              Len(crawl.stores) + crawl.validationFailures
                + crawl.walmartCount + crawl.targetCount
        /\ LET kept == SelectSeq(crawl.items,
                    LAMBDA item : ~BadRecord(item) /\ ~IsRetailer(item.title))
           IN  [k \in 1..Len(crawl.stores) |-> crawl.stores[k].name] =
                  [k \in 1..Len(kept) |-> kept[k].title]

\* C16 witness: 3 raw records, one without its external id, have given 2
\* stores and validationFailures = 1.
C16_Witness ==
    /\ crawl.pc = "returned"
    /\ Len(crawl.items) = 3
    /\ crawl.items[2].placeId = NoPlaceId
    /\ Len(crawl.stores) = 2
    /\ crawl.validationFailures = 1

(***************************************************************************)
(* Claims about checkRateLimits under concurrent callers, checked under    *)
(* SpecCallers                                                             *)
(***************************************************************************)

\* C17: with two claudeAPICall invocations running concurrently, every call
\* admitted since the window of the counters began is reflected in the
\* request counter (the call that opens a window after the minute has
\* passed aside), and no more calls than the request ceiling are admitted
\* in the window.
C17_ConcurrentCallersCounted ==
    /\ requestsThisMinute = admissions.inWindow
    /\ admissions.inWindow <= REQUESTS_PER_MINUTE

\* C18: when every chunk of the write of a state has exhausted its retries,
\* writeStores ends by throwing, so that the failure reaches
\* processSingleState as an error and not as an ordinary result, and the
\* run-metadata record of the state is still written.
C18_TotalWriteFailureThrown ==
    \A st \in Writers :
        (sc[st].pc \in {"runDetails", "returned"}
            /\ sc[st].everyChunkFailed) =>
            /\ sc[st].storeError # None
            /\ "error" \in DOMAIN sc[st].store_processing_results
            /\ (sc[st].pc = "returned" /\ ~RunDetailsFailed(st)) =>
                  Len(apifyRuns[st]) = 1

(***************************************************************************)
(* Claims about the failures of runAIProcessing, checked under SpecAI      *)
(***************************************************************************)

\* C19: a store whose summarization failed and the stores of a summary-write
\* batch that was given up are recorded in failedStores, and neither throws
\* out of runAIProcessing (only a failed page query ends the run as failed):
\* a run that ends has processed every store of every page it fetched and
\* has gone on until the read path reported no further page.
C19_FailuresAbsorbed ==
    /\ aiHistory.summaryFailed \subseteq
           PlaceIdsOf(processingDetails.failedStores)
    /\ aiPc # "write" =>
           aiHistory.writeFailed \subseteq
               PlaceIdsOf(processingDetails.failedStores)
    /\ aiPc = "failed" => aiHistory.readFailed
    /\ aiPc = "done" =>
           /\ aiHistory.fetched \subseteq
                  claudeCalls \cup PlaceIdsOf(processingDetails.skippedStores)
           /\ ~page.hasMoreStores

\* C19 witness: a run has completed in which the summarization of one store
\* failed, the write batch of a later store of the page was given up, and a
\* store of the following page was summarized and written.
C19_Witness ==
    /\ aiPc = "done"
    /\ \E p \in aiHistory.summaryFailed, q \in aiHistory.writeFailed,
          r \in SeqRange(successfulIds) :
          /\ p < q
          /\ q < r
          /\ {p, q} \subseteq PlaceIdsOf(processingDetails.failedStores)
          /\ aiTable[r].ai_summary = GeneratedSummary

\* C20: once the query of a page has failed, the first page or a later one,
\* runAIProcessing has ended as failed, having thrown the error wrapped as
\* 'AI processing job failed: ...', and stays so (no further page is
\* fetched); every summary written for an earlier page is still in the
\* table.
C20_ReadFailureEndsRun ==
    aiHistory.readFailed =>
        /\ aiPc = "failed"
        /\ aiHistory.thrown = EnhancedError("query error")
        /\ aiHistory.thrown.message[1] = "AI processing job failed: "
        /\ \A p \in SeqRange(successfulIds) : aiTable[p].ai_summary # Null

\* C20 witness: the query of the second page has failed after a summary of
\* the first page was written, and the run has ended as failed.
C20_Witness ==
    /\ aiPc = "failed"
    /\ aiHistory.readFailed
    /\ page.currentBatchIndex = AI_FETCH_BATCH_SIZE
    /\ \E p \in SeqRange(successfulIds) :
          aiTable[p].ai_summary = GeneratedSummary

(***************************************************************************)
(* Claims about fetchAndTransformDataset, checked under SpecCrawl          *)
(***************************************************************************)

\* The stores of a list without the times of their transformation.
Untimed(stores) ==
    [k \in 1..Len(stores) |->
        [place_id |-> stores[k].place_id, name |-> stores[k].name]]

\* C21: for the raw records of one dataset, fetchAndTransformDataset returns
\* the stores that crawlerGooglePlaces returned, the same members in the
\* same order (the times of the transformation aside), and the same
\* validationFailures.
C21_DatasetPipelineSame ==
    (crawl.pc = "returned" /\ crawl.dataset.pc = "returned") =>
        /\ Untimed(crawl.dataset.stores) = Untimed(crawl.stores)
        /\ crawl.dataset.validationFailures = crawl.validationFailures

\* C21 witness: both have returned for a dataset that holds a record that
\* fails validation, a Target store and a store that is kept.
C21_Witness ==
    /\ crawl.pc = "returned"
    /\ crawl.dataset.pc = "returned"
    /\ crawl.dataset.validationFailures = 1
    /\ crawl.targetCount = 1
    /\ Len(crawl.dataset.stores) = 1

(***************************************************************************)
(* Claims about writeAISummariesToDb, checked under SpecSummaries          *)
(***************************************************************************)

\* A row without its enrichment fields.
Descriptive(r) ==
    [id |-> r.id, place_id |-> r.place_id, name |-> r.name,
     scraped_at |-> r.scraped_at]

\* C22: writeAISummariesToDb changes ai_summary and ai_summary_updated_at
\* only, and on rows whose place_id is in its input only: no row is
\* inserted, and the id, the scraped_at and the descriptive fields of every
\* row stay as they were.
C22_OnlyEnrichmentFields ==
    sm.pc # "idle" =>
        /\ Cardinality(sm.table) = Cardinality(sm.tableAtCall)
        /\ {Descriptive(r) : r \in sm.table} =
               {Descriptive(r) : r \in sm.tableAtCall}
        /\ \A r \in sm.table :
               r.place_id \notin PlaceIdsOf(sm.storeSummaries) =>
                   r \in sm.tableAtCall

\* C22 witness: a call has returned that was given a place_id with a row
\* and a place_id without one, for a table with a row that it was not given,
\* and has written a summary.
C22_Witness ==
    /\ sm.pc = "returned"
    /\ \E r \in sm.table : r.ai_summary = GeneratedSummary
    /\ \E r \in sm.table : r.place_id \notin PlaceIdsOf(sm.storeSummaries)
    /\ \E k \in 1..Len(sm.successful) :
          sm.successful[k].place_id \notin PlaceIdsIn(sm.tableAtCall)

(***************************************************************************)
(* Claims about the rate limiter and the retry loop of claudeAPICall,      *)
(* checked under SpecClaude                                                *)
(***************************************************************************)

\* C23: with a single caller the counters of the window stay within the
\* ceilings, whatever the estimates of the calls: requestsThisMinute is at
\* most REQUESTS_PER_MINUTE and tokensThisMinute is below TOKENS_PER_MINUTE.
C23_CountersWithinCeilings ==
    /\ requestsThisMinute <= REQUESTS_PER_MINUTE
    /\ tokensThisMinute < TOKENS_PER_MINUTE

\* C24: every call that checkRateLimits admits is accounted for:
\* requestsThisMinute is the number of the calls admitted since
\* lastResetTime and tokensThisMinute is the sum of their estimates, the
\* call that arrives after the window has elapsed included, so that no more
\* remote calls than REQUESTS_PER_MINUTE are issued in a window.
C24_AdmittedCallsCounted ==
    /\ requestsThisMinute = admittedSinceReset
    /\ tokensThisMinute = admittedTokens
    /\ admittedSinceReset <= REQUESTS_PER_MINUTE

(***************************************************************************)
(* Claims about the order of the steps of runAIProcessing, checked under   *)
(* SpecAI                                                                  *)
(***************************************************************************)

\* C25: in a run of runAIProcessing at most one claudeAPICall is in flight,
\* the stores of a page are classified in the order they were fetched (the
\* call in flight is that of the next store in that order), and the write
\* of the page's summaries starts only when the last store of the page has
\* been classified and no call is in flight.
C25_SequentialPerStore ==
    /\ Cardinality(aiHistory.inFlight) <= 1
    /\ Len(aiHistory.classified) <= Len(page.formattedStores)
    /\ \A k \in 1..Len(aiHistory.classified) :
          aiHistory.classified[k] = page.formattedStores[k].place_id
    /\ \A p \in aiHistory.inFlight :
          /\ aiPc = "summarizing"
          /\ Len(aiHistory.classified) < Len(page.formattedStores)
          /\ p = page.formattedStores[Len(aiHistory.classified) + 1].place_id
    /\ aiPc = "write" =>
          /\ Len(aiHistory.classified) = Len(page.formattedStores)
          /\ aiHistory.inFlight = {}

\* C25 witness: the write of a page of 2 stores has started after a
\* claudeAPICall was made for each.
C25_Witness ==
    /\ aiPc = "write"
    /\ Len(aiHistory.classified) = AI_FETCH_BATCH_SIZE
    /\ SeqRange(aiHistory.classified) \subseteq claudeCalls

\* C26: in claudeAPICall every attempt, the first and each retry, calls
\* checkRateLimits with the estimate of the call and sends the remote
\* request only when checkRateLimits has returned: a request that is in
\* flight was preceded by a check made in its own attempt, and no request
\* of an attempt is sent while its check is suspended.
C26_CheckBeforeEveryRequest ==
    /\ requestsSent <= attemptsMade
    /\ pc = "request" =>
          /\ lastCheck.made
          /\ lastCheck.attempt = attempt
          /\ lastCheck.est = estimatedInputTokens
          /\ lastCheck.suspended => lastCheck.reset
          /\ requestsSent = attempt + 1
          /\ attemptsMade = attempt + 1
    /\ pc = "limiterWait" =>
          /\ lastCheck.attempt = attempt
          /\ requestsSent = attempt

\* C26 witness: the request of the second retry is in flight, sent when the
\* check of that retry had returned (a retry comes RETRY_DELAY after the
\* attempt before it, so that its check finds the window elapsed).
C26_Witness ==
    /\ pc = "request"
    /\ attempt = MAX_RETRIES - 1
    /\ lastCheck.attempt = attempt
    /\ lastCheck.reset
    /\ requestsSent = MAX_RETRIES

\* C27: a claudeAPICall that returns has made as many remote requests as
\* the index of its first successful attempt (every request before it was
\* caught as an error and followed by one delay), at most MAX_RETRIES, and
\* returns the summary of that attempt; no attempt and no delay follows the
\* successful attempt.  One that throws has made MAX_RETRIES requests.
C27_StopsAtFirstSuccess ==
    /\ pc = "returned" =>
          /\ "summary_text" \in DOMAIN result
          /\ result.summary_text = "summary"
          /\ result.attempt \in 1..MAX_RETRIES
          /\ requestsSent = result.attempt
          /\ attemptsMade = result.attempt
          /\ Len(caughtErrors) = result.attempt - 1
          /\ Len(retryDelays) = result.attempt - 1
    /\ pc = "threw" =>
          /\ requestsSent = MAX_RETRIES
          /\ Len(caughtErrors) = MAX_RETRIES

\* C27 witness: an invocation has returned the summary of its second
\* attempt, after one failed attempt and one delay.
C27_Witness ==
    /\ pc = "returned"
    /\ result.attempt = 2
    /\ requestsSent = 2
    /\ Len(retryDelays) = 1

\* C28: an empty provider response is handled as a thrown error is: it is
\* followed by the delay RETRY_DELAY when an attempt is left, it uses up an
\* attempt of the same MAX_RETRIES, and at the last attempt it ends the
\* invocation with the terminal error that names MAX_RETRIES and carries
\* its message.
C28_EmptyResponseRetried ==
    lastError = EmptyResponseMessage =>
        /\ pc = "retryDelay" =>
              /\ wakeAt = now + RETRY_DELAY
              /\ attempt < MAX_RETRIES - 1
              /\ Len(caughtErrors) = attempt + 1
        /\ Len(caughtErrors) < MAX_RETRIES => pc # "threw"
        /\ pc = "threw" =>
              /\ thrown = TerminalError(EmptyResponseMessage)
              /\ attemptsMade = MAX_RETRIES
              /\ retryDelays = [i \in 1..(MAX_RETRIES - 1) |-> RETRY_DELAY]

\* C28 witness: an invocation has thrown after MAX_RETRIES attempts that
\* all got an empty response.
C28_Witness ==
    /\ pc = "threw"
    /\ caughtErrors = [i \in 1..MAX_RETRIES |-> EmptyResponseMessage]
    /\ thrown = TerminalError(EmptyResponseMessage)

(***************************************************************************)
(* Claims about the pages of a run of runAIProcessing, checked under       *)
(* SpecAI                                                                  *)
(***************************************************************************)

\* C29: a run of runAIProcessing without a limit that completes has fetched
\* every store that had no summary when the run started (every row of the
\* table), and each of them once: the stores fetched over all pages are as
\* many as the rows.
C29_EveryStoreVisitedOnce ==
    (aiPc = "done" /\ page.limit = Null) =>
        /\ aiHistory.fetched = AIPlaceIds
        /\ processingDetails.totalStores = NumStores

\* The number of stores of the pages returned so far.
RECURSIVE SumOf(_)
SumOf(seq) == IF seq = <<>> THEN 0 ELSE Head(seq) + SumOf(Tail(seq))

\* C30: with a limit L given to fetchStoresDb, the stores returned over all
\* pages of a run are never more than L, no page holds more stores than the
\* page size, and hasMore is false once L stores have been returned or a
\* page came back with fewer stores than the page size.
C30_LimitBoundsPages ==
    (page.limit # Null /\ aiHistory.returned # <<>>) =>
        LET returned == aiHistory.returned
            last == returned[Len(returned)]
        IN  /\ SumOf(returned) <= page.limit.value
            /\ \A k \in 1..Len(returned) :
                   returned[k] <= AI_FETCH_BATCH_SIZE
            /\ (SumOf(returned) >= page.limit.value
                \/ last < AI_FETCH_BATCH_SIZE) => ~page.hasMoreStores

\* A run with a limit of a page and a half whose second page was cut to the
\* limit: the limit is reached and the fetcher reports no more stores.
C30_Witness ==
    /\ page.limit # Null
    /\ page.limit.value = AI_FETCH_BATCH_SIZE + 1
    /\ aiHistory.returned = <<AI_FETCH_BATCH_SIZE, 1>>
    /\ ~page.hasMoreStores

\* C31: with providers whose calls always return, every run of
\* runAIProcessing that was started eventually completes (returns the
\* ledger) or fails (throws).
C31_RunTerminates == (aiPc = "fetch") ~> (aiPc \in {"done", "failed"})

\* A completed run of more than one page in which a page write was retried
\* to its last attempt.
C31_Witness ==
    /\ aiPc = "done"
    /\ Len(aiHistory.returned) >= 2
    /\ aiHistory.writeFailed # {}

(***************************************************************************)
(* Claims about the batches of runScrape, checked under SpecScrape         *)
(***************************************************************************)

\* The states whose processSingleState has started and has not returned.
StatesInFlight == {st \in Writers : sc[st].pc \notin {"idle", "returned"}}

\* C32: in runScrape at most BATCH_SIZE states are in flight at any time; a
\* state has started only if it belongs to the current batch or an earlier
\* one, and the states of a batch start only when every state of the
\* batches before has settled and the delay is over; the delay is entered
\* only when a batch is left.
C32_BoundedBatches ==
    /\ Cardinality(StatesInFlight) <= SCRAPE_BATCH_SIZE
    /\ \A st \in Writers :
           sc[st].pc # "idle" =>
               /\ st <= scrape.i + SCRAPE_BATCH_SIZE
               /\ \A earlier \in Writers :
                      (earlier <= scrape.i /\ st > scrape.i) =>
                          sc[earlier].pc = "returned"
    /\ scrape.pc = "delay" =>
           /\ scrape.i + SCRAPE_BATCH_SIZE < Len(States)
           /\ StatesInFlight = {}
    /\ scrape.pc = "done" => scrape.i + SCRAPE_BATCH_SIZE >= Len(States)

\* The second batch is in flight after the delay: every state of the first
\* batch has settled and a state of the second is writing its stores.
C32_Witness ==
    /\ scrape.pc = "batch"
    /\ scrape.i = SCRAPE_BATCH_SIZE
    /\ \A st \in 1..SCRAPE_BATCH_SIZE : sc[st].pc = "returned"
    /\ \E st \in Writers : st > SCRAPE_BATCH_SIZE /\ sc[st].pc = "writing"

(***************************************************************************)
(* Claims about the chunks of writeStores, checked under SpecStores        *)
(***************************************************************************)

\* C33: within one writeStores call the upsert attempts go through the
\* chunks in input order; each chunk is attempted at most 3 times, with
\* attempts numbered from 1; an attempt of a chunk follows only a failed
\* attempt of that chunk (its attempts stop at its first success), and the
\* first attempt of the next chunk follows only the success or the third
\* failure of the chunk before.
C33_ChunksInOrder ==
    "attemptLog" \in DOMAIN ws[1] =>
        LET log == ws[1].attemptLog
        IN  /\ \A k \in 1..Len(log) : log[k].attempt <= 3
            /\ Len(log) > 0 => (log[1].i = 0 /\ log[1].attempt = 1)
            /\ \A k \in 1..(Len(log) - 1) :
                   \/ /\ log[k + 1].i = log[k].i
                      /\ log[k + 1].attempt = log[k].attempt + 1
                      /\ ~log[k].ok
                   \/ /\ log[k + 1].i = log[k].i + STORE_BATCH_SIZE
                      /\ log[k + 1].attempt = 1
                      /\ (log[k].ok \/ log[k].attempt = 3)

\* A call of two chunks has returned: the first chunk succeeded at its
\* second attempt and the second chunk failed three times.
C33_Witness ==
    /\ ws[1].pc = "returned"
    /\ ws[1].attemptLog =
           <<[i |-> 0, attempt |-> 1, ok |-> FALSE],
             [i |-> 0, attempt |-> 2, ok |-> TRUE],
             [i |-> STORE_BATCH_SIZE, attempt |-> 1, ok |-> FALSE],
             [i |-> STORE_BATCH_SIZE, attempt |-> 2, ok |-> FALSE],
             [i |-> STORE_BATCH_SIZE, attempt |-> 3, ok |-> FALSE]>>

(***************************************************************************)
(* Claims about skipped stores and later runs, checked under SpecAI        *)
(***************************************************************************)

\* C34: a store below the review gate (the stores runAIProcessing is to
\* classify skipped) whose page write succeeded has the placeholder summary
\* with zero token usage in its ai_summary, and no page of a later run over
\* the unsummarized filter holds it.
C34_SkippedGetPlaceholder ==
    \A p \in DOMAIN aiTable :
        (aiTable[p].reviews_count < MIN_REVIEWS
         /\ p \in SeqRange(successfulIds)) =>
            /\ aiTable[p].ai_summary = PlaceholderSummary
            /\ PlaceholderSummary.token_usage = 0
            /\ \A startIndex \in 0..NumStores :
                   p \notin PlaceIdsOf(FetchRange(aiTable, startIndex, Null))

(***************************************************************************)
(* Claims about ingestion over summarized stores, checked under            *)
(* SpecReingest                                                            *)
(***************************************************************************)

C36_LookupFailureThrows ==
    /\ []("lookupFailed" \in DOMAIN ws[1] /\ ws[1].lookupFailed =>
             /\ ws[1].pc = "threw"
             /\ ws[1].error = "Failed to fetch existing stores chunk"
             /\ ws[1].attempt = 3
             /\ ws[1].attemptLog = <<>>
             /\ ws[1].chunkLog = <<>>
             /\ ws[1].results = [successful |-> <<>>, failed |-> <<>>,
                                 newStores |-> <<>>, updatedStores |-> <<>>])
    /\ [][ws[1].pc = "lookup" => storesTable' = storesTable]_vars

\* The lookup of the second chunk of a call ran out of attempts, after the
\* lookup of its first chunk had succeeded, over a table with rows.
C36_Witness ==
    /\ ws[1].pc = "threw"
    /\ "lookupFailed" \in DOMAIN ws[1]
    /\ ws[1].lookupFailed
    /\ ws[1].i = STORE_BATCH_SIZE
    /\ storesTable # {}

(***************************************************************************)
(* Claims about the run-metadata record, checked under SpecScrape          *)
(***************************************************************************)

\* C37: when processSingleState has returned for a state whose
\* writeApifyRunDetails was called and persisted no record (it threw), the
\* state is reported with success = false and storesProcessed = 0, whatever
\* its scrape and its store write did; and the step in which
\* writeApifyRunDetails settles leaves the stores table as it was.
C37_MetadataFailureFailsState ==
    /\ [](\A st \in Writers :
            (/\ sc[st].pc = "returned"
             /\ sc[st].runDetailsCalls = 1
             /\ apifyRuns[st] = <<>>) =>
                /\ ~sc[st].result.success
                /\ sc[st].result.storesProcessed = 0
                /\ sc[st].result.error = "Failed to store Apify run details")
    /\ [][\A st \in Writers :
            (sc[st].pc = "runDetails" /\ sc'[st].pc = "returned") =>
                storesTable' = storesTable]_vars

\* A state whose scrape gave one store and whose write stored it is reported
\* failed because its run-metadata record could not be persisted; the store
\* is in the table.
C37_Witness ==
    \E st \in Writers :
        /\ sc[st].pc = "returned"
        /\ sc[st].runDetailsCalls = 1
        /\ apifyRuns[st] = <<>>
        /\ sc[st].storesLength = 1
        /\ "summary" \in DOMAIN sc[st].store_processing_results
        /\ sc[st].store_processing_results.summary.successful = 1
        /\ storesTable # {}
        /\ ~sc[st].result.success

(***************************************************************************)
(* Claims about the waits of the rate limiter, checked under SpecClaude    *)
(***************************************************************************)

\* C38: with a single caller, the checkRateLimits call of a retry attempt
\* finds the window elapsed, resets the counters and returns at once: no
\* retry attempt is suspended in the limiter.
C38_RetryNeverSuspends ==
    /\ (lastCheck.made /\ lastCheck.attempt > 0) =>
           /\ ~lastCheck.inWindow
           /\ lastCheck.reset
           /\ ~lastCheck.suspended
    /\ pc = "limiterWait" => attempt = 0

\* The first retry of a store text that alone reaches the token ceiling has
\* been admitted by a reset, after the first attempt was counted.
C38_Witness ==
    /\ pc = "request"
    /\ attempt = 1
    /\ lastCheck.attempt = 1
    /\ lastCheck.est = 35000
    /\ lastCheck.priorAdmitted >= 1
    /\ lastCheck.reset
    /\ ~lastCheck.suspended

\* C39: every call of checkRateLimits returns (the request that follows it
\* is sent); while it is suspended it waits on one timer, due at the end of
\* the current window, more than 0 and at most 60 s away; and the step that
\* ends the wait resets the window, counts the call and returns, so that a
\* call is suspended at most once.
C39_LimiterWaitsOnce ==
    /\ (pc = "attempt") ~> (pc = "request")
    /\ [](pc = "limiterWait" =>
             /\ wakeAt - now > 0
             /\ wakeAt - now <= 60000
             /\ wakeAt = lastResetTime + 60000
             /\ lastCheck.suspended)
    /\ [][pc = "limiterWait" =>
             /\ pc' = "request"
             /\ now' = wakeAt
             /\ lastResetTime' = now'
             /\ requestsThisMinute' = 1
             /\ tokensThisMinute' = estimatedInputTokens
             /\ requestsSent' = requestsSent + 1
             /\ attemptsMade' = attemptsMade
      ]_<<pc, now, wakeAt, lastResetTime, requestsThisMinute,
          tokensThisMinute, requestsSent, attemptsMade>>

\* A call that was suspended part of the way into the window has waited for
\* the remainder of it and has been admitted.
C39_Witness ==
    /\ pc = "request"
    /\ lastCheck.suspended
    /\ lastCheck.priorAdmitted >= 1
    /\ lastResetTime = lastCheck.windowEnd
    /\ now = lastResetTime
    /\ requestsThisMinute = 1

====
